---- MODULE Spec2Model ----
(***************************************************************************)
(* Model of the Wreck League auto-vote scripts                             *)
(*   src/farcaster_auto_vote_clean.py  (multi-account edition)             *)
(*   src/farcaster_auto_vote.py        (single-account edition)            *)
(*                                                                         *)
(* Time is counted in whole seconds on a clock 0..MaxTime; the value       *)
(* MaxTime stands for "MaxTime or later".  The loops read only differences *)
(* between the clock and the timestamps of the match they hold, so the     *)
(* clock starts again from 0 whenever a loop holds no match.               *)
(*                                                                         *)
(* The remote service is an external collaborator: every response it       *)
(* gives is drawn from a small set of response shapes.  Mechs always carry *)
(* a mechId, as every payload the scripts index with ['mechId'] does.      *)
(***************************************************************************)
EXTENDS Integers, Sequences, FiniteSets, TLC

\* ---------------------------------------------------------------- bounds
MaxTime == 4
TzOffset == 1
MaxMechs == 2

Min2(a, b) == IF a <= b THEN a ELSE b
Min3(a, b, c) == Min2(a, Min2(b, c))

\* ------------------------------------------------------- ISO time strings
\* A timestamp field of a match: absent (or null), the empty string, text
\* that datetime.fromisoformat rejects, "...Z", a string without zone, or a
\* string with a numeric UTC offset.  t is the wall-clock reading written
\* in the string, off the written offset.
Times == 0..MaxTime

IsoStrings ==
    {[kind |-> k, t |-> 0, off |-> 0] : k \in {"missing", "empty", "bad"}}
    \cup {[kind |-> k, t |-> t, off |-> 0] : k \in {"Z", "naive"}, t \in Times}
    \cup {[kind |-> "offset", t |-> t, off |-> TzOffset] : t \in Times}

NoneTime == [ok |-> FALSE, utc |-> 0]

\* bool(s) of a value read with dict.get
Truthy(s) == s.kind \notin {"missing", "empty"}

\* parse_iso_time: None on any exception, else an aware datetime; utc is
\* the instant it denotes.
parse_iso_time(iso_string) ==
    CASE iso_string.kind \in {"missing", "empty", "bad"} -> NoneTime
      [] iso_string.kind = "Z" -> [ok |-> TRUE, utc |-> iso_string.t]
      [] iso_string.kind = "naive" -> [ok |-> TRUE, utc |-> iso_string.t]
      [] OTHER -> [ok |-> TRUE, utc |-> iso_string.t - iso_string.off]

\* match_data.get('votingEndTime') or match_data.get('endTime')
voting_end_str(m) ==
    IF Truthy(m.votingEndTime) THEN m.votingEndTime ELSE m.endTime

\* show_match_timing_info of farcaster_auto_vote_clean.py, evaluated at
\* clock reading n.  A comparison with None raises TypeError, which the
\* function's own handler turns into ('error', 0).
show_match_timing_info_strict_end(m, n) ==
    LET s == m.votingStartTime
        e == voting_end_str(m)
        vs == parse_iso_time(s)
        ve == parse_iso_time(e)
    IN  IF Truthy(s) /\ Truthy(e)
        THEN IF ~vs.ok THEN <<"error", 0>>
             ELSE IF n < vs.utc THEN <<"waiting", vs.utc - n>>
             ELSE IF ~ve.ok THEN <<"error", 0>>
             ELSE IF n < ve.utc THEN <<"open", ve.utc - n>>
             ELSE <<"closed", 0>>
        ELSE <<"unknown", 0>>

show_match_timing_info(m, n) ==
    LET s == m.votingStartTime
        e == voting_end_str(m)
        vs == parse_iso_time(s)
        ve == parse_iso_time(e)
    IN  IF Truthy(s) /\ Truthy(e)
        THEN IF ~vs.ok THEN <<"error", 0>>
             ELSE IF n < vs.utc THEN <<"waiting", vs.utc - n>>
             ELSE IF ~ve.ok THEN <<"error", 0>>
             ELSE IF n <= ve.utc THEN <<"open", ve.utc - n>>
             ELSE <<"closed", 0>>
        ELSE <<"unknown", 0>>

\* ------------------------------------------------------------------ mechs
TeamPreferences == {"None", "auto", "blue", "red", "kanan", "kiri"}
BlueWords == {"blue", "biru", "kanan", "right"}
RedWords == {"red", "merah", "kiri", "left"}

MechTypes == {"absent", "left", "right"}
Mechs(i) == [mechId : {i}, mechType : MechTypes,
             winningProbability : {40, 65}, voteCount : {0, 1},
             fuelPoints : {0, 1}]

RECURSIVE MechLists(_)
MechLists(n) ==
    IF n = 0 THEN {<<>>}
    ELSE {Append(l, m) : l \in MechLists(n - 1), m \in Mechs(n)}

AllMechLists == UNION {MechLists(n) : n \in 0..MaxMechs}

NoMech == [mechId |-> 0, mechType |-> "absent", winningProbability |-> 0,
           voteCount |-> 0, fuelPoints |-> 0]

\* the key of max(): (winningProbability, voteCount, fuelPoints)
KeyLess(a, b) ==
    \/ a.winningProbability < b.winningProbability
    \/ /\ a.winningProbability = b.winningProbability
       /\ a.voteCount < b.voteCount
    \/ /\ a.winningProbability = b.winningProbability
       /\ a.voteCount = b.voteCount
       /\ a.fuelPoints < b.fuelPoints

\* Python's max(list, key=...): the first element no other element beats
best_mech(mech_details) ==
    LET i == CHOOSE i \in 1..Len(mech_details) :
                 /\ \A j \in 1..Len(mech_details) :
                        ~KeyLess(mech_details[i], mech_details[j])
                 /\ \A j \in 1..(i - 1) :
                        KeyLess(mech_details[j], mech_details[i])
    IN  mech_details[i]

\* team_indicator of the mech at 0-based position i - 1
\* (farcaster_auto_vote_clean.py: index 0 blue, index 1 red, mechType wins)
team_indicator_swapped(mech_details, i) ==
    IF mech_details[i].mechType = "left" THEN "blue"
    ELSE IF mech_details[i].mechType = "right" THEN "red"
    ELSE IF i = 1 THEN "red"
    ELSE IF i = 2 THEN "blue"
    ELSE ""

team_indicator(mech_details, i) ==
    IF mech_details[i].mechType = "left" THEN "blue"
    ELSE IF mech_details[i].mechType = "right" THEN "red"
    ELSE IF i = 1 THEN "blue"
    ELSE IF i = 2 THEN "red"
    ELSE ""

\* (farcaster_auto_vote.py: index 0 red, index 1 blue, mechType wins)
team_indicator_auto_vote(mech_details, i) ==
    IF mech_details[i].mechType = "left" THEN "red"
    ELSE IF mech_details[i].mechType = "right" THEN "blue"
    ELSE IF i = 1 THEN "red"
    ELSE IF i = 2 THEN "blue"
    ELSE ""

PreferenceMatches(pref, indicator) ==
    \/ pref \in BlueWords /\ indicator = "blue"
    \/ pref \in RedWords /\ indicator = "red"

\* select_mech_by_preference of farcaster_auto_vote_clean.py
select_mech_by_preference(team_preference, mech_details) ==
    LET hits == {i \in 1..Len(mech_details) :
                    PreferenceMatches(team_preference,
                                      team_indicator(mech_details, i))}
    IN  IF Len(mech_details) = 0 THEN NoMech
        ELSE IF Len(mech_details) = 1 THEN mech_details[1]
        ELSE IF team_preference # "None" /\ hits # {}
             THEN mech_details[CHOOSE i \in hits : \A j \in hits : i <= j]
        ELSE best_mech(mech_details)

\* select_mech_by_preference of farcaster_auto_vote.py: the fallback
\* computes best_mech and falls off the end of the function (returns None)
select_mech_by_preference_auto_vote(team_preference, mech_details) ==
    LET hits == {i \in 1..Len(mech_details) :
                    PreferenceMatches(team_preference,
                        team_indicator_auto_vote(mech_details, i))}
    IN  IF Len(mech_details) = 0 THEN NoMech
        ELSE IF Len(mech_details) = 1 THEN mech_details[1]
        ELSE IF team_preference # "None" /\ hits # {}
             THEN mech_details[CHOOSE i \in hits : \A j \in hits : i <= j]
        ELSE NoMech


\* ------------------------------------------------------------ fuel values
\* Balances the remote service reports: 0..LowFuel and the values around
\* the max_fuel the per-account thread builds its bot with.
LowFuel == 3
FuelAboveCap == 1
thread_max_fuel == 10
conservative_threshold == 3
max_threshold == 1

FuelValues == (0..LowFuel) \cup (thread_max_fuel..(thread_max_fuel + FuelAboveCap))

\* the amounts entered for the custom strategy: one below the conservative
\* threshold, one above the thread's max_fuel
CustomAmounts == {conservative_threshold - 1, thread_max_fuel + FuelAboveCap}

\* the (strategy, threshold) pairs main() can hand to the loops
FuelConfigs ==
    {<<"conservative", conservative_threshold>>, <<"max", max_threshold>>}
    \cup {<<"custom", a>> : a \in CustomAmounts}

\* delay_config chosen in main() ("Custom Range")
min_delay == 1
max_delay == 2

\* ----------------------------------------------------- remote responses
MatchIds == {"m1", "m2"}

LoopIso ==
    {[kind |-> k, t |-> 0, off |-> 0] : k \in {"missing", "bad"}}
    \cup {[kind |-> "Z", t |-> t, off |-> 0] : t \in 0..(MaxTime - 1)}

MissingIso == [kind |-> "missing", t |-> 0, off |-> 0]

\* the fields of matchData[0] the loops read; _id "" stands for no _id key
LoopMatches == [_id : MatchIds \cup {""}, votingStartTime : LoopIso,
                votingEndTime : LoopIso, endTime : {MissingIso}]

NoMatch == [_id |-> "", votingStartTime |-> MissingIso,
            votingEndTime |-> MissingIso, endTime |-> MissingIso]

\* shapes of the value get_match_details returns:
\*   "None"     no endpoint answered 200 with JSON
\*   "no_data"  a dict without 'data'
\*   "no_key"   'data' without 'matchData' (indexing raises KeyError)
\*   "empty"    'matchData' is an empty list
\*   "match"    matchData[0] is a match
FailShapes == {"None", "no_data", "no_key", "empty"}

\* what submit_prediction reads of the match it fetches: the _id and the
\* mech fields.  mechs "none": neither mechDetails nor mechIds;
\* "ids": only mechIds; "details": a two-entry mechDetails list
MechOptions == {"none", "ids", "details"}

first_mech_id == 7

details_pair ==
    << [mechId |-> 1, mechType |-> "absent", winningProbability |-> 40,
        voteCount |-> 1, fuelPoints |-> 1],
       [mechId |-> 2, mechType |-> "absent", winningProbability |-> 65,
        voteCount |-> 0, fuelPoints |-> 0] >>

\* outcome of requests.put: 200 with a JSON body, 200 with a body that is
\* not JSON, any other status, or a raised network error
HttpOutcomes == {"200", "200_badjson", "non200", "network_error"}

\* ------------------------------------------------------ submit_prediction
\* lines 815-831: the fuel the vote will carry, or -1 for the
\* "Insufficient fuel" return.  fuel_amount 0 stands for None.
fuel_points_for_vote_ignoring_balance(fuel_amount, max_fuel, current_fuel) ==
    IF fuel_amount # 0 THEN Min2(fuel_amount, max_fuel) ELSE max_fuel

fuel_points_for_vote(fuel_amount, max_fuel, current_fuel) ==
    LET fuel_points ==
            IF fuel_amount # 0
            THEN Min3(fuel_amount, max_fuel, current_fuel)
            ELSE Min2(current_fuel, max_fuel)
    IN  IF current_fuel < fuel_points THEN -1 ELSE fuel_points

NoVote == [sent |-> FALSE, success |-> FALSE, fuelPoints |-> 0,
           current_fuel |-> 0, matchId |-> "", mechId |-> 0]

\* the same call keeping the id of the latest-match lookup in the payload
submit_prediction_with_latest_id(fuel_amount, max_fuel, pref, current_fuel, latest, resp, fid_ok, http) ==
    LET selected == select_mech_by_preference(pref, details_pair)
        mech_id == CASE resp.mechs = "details" -> selected.mechId
                     [] resp.mechs = "ids" -> first_mech_id
                     [] OTHER -> 0
        fuel_points == fuel_points_for_vote(fuel_amount, max_fuel, current_fuel)
    IN  IF \/ latest = ""
           \/ resp.shape # "match"
           \/ resp._id = ""
           \/ mech_id = 0
           \/ fuel_points = -1
           \/ ~fid_ok
        THEN NoVote
        ELSE [sent |-> TRUE, success |-> (http = "200"),
              fuelPoints |-> fuel_points, current_fuel |-> current_fuel,
              matchId |-> latest, mechId |-> mech_id]

\* submit_prediction() as every caller invokes it (no arguments):
\*   current_fuel  the balance get_user_fuel_info returns at line 730
\*   latest        get_latest_match_id's result ("" for None)
\*   resp          the match details fetched at line 743
\*   fid_ok        whether int(fid) succeeds (the FID was detected)
\*   http          the outcome of the PUT
submit_prediction(fuel_amount, max_fuel, pref, current_fuel, latest, resp, fid_ok, http) ==
    LET selected == select_mech_by_preference(pref, details_pair)
        mech_id == CASE resp.mechs = "details" -> selected.mechId
                     [] resp.mechs = "ids" -> first_mech_id
                     [] OTHER -> 0
        fuel_points == fuel_points_for_vote(fuel_amount, max_fuel, current_fuel)
    IN  IF \/ latest = ""
           \/ resp.shape # "match"
           \/ resp._id = ""
           \/ mech_id = 0
           \/ fuel_points = -1
           \/ ~fid_ok
        THEN NoVote
        ELSE [sent |-> TRUE, success |-> (http = "200"),
              fuelPoints |-> fuel_points, current_fuel |-> current_fuel,
              matchId |-> resp._id, mechId |-> mech_id]


\* ----------------------------------------------------- get_user_fuel_info
\* fuel_paths (lines 410-420), in the order they are tried
fuel_paths ==
    << <<"data", "fuelBalance">>, <<"data", "data", "fuelBalance">>,
       <<"data", "fuel">>, <<"data", "data", "fuel">>,
       <<"data", "user", "fuel">>, <<"fuel">>, <<"fuelBalance">>,
       <<"user", "fuel">>, <<"data", "user", "fuelBalance">> >>

\* how many of the paths lead to a value in one response body
MaxFuelFields == 2

\* the value a path leads to in a JSON body.  A float is given in tenths;
\* "inf" is 1e999 (v its sign), "bool" is true/false (v 1 or 0)
AbsentField == [type |-> "absent", v |-> 0]
FuelFieldValues ==
    {[type |-> "int", v |-> -1], [type |-> "int", v |-> 0],
     [type |-> "int", v |-> 3], [type |-> "float", v |-> -5],
     [type |-> "float", v |-> 25], [type |-> "inf", v |-> 1],
     [type |-> "nan", v |-> 0], [type |-> "str", v |-> 0],
     [type |-> "bool", v |-> 1]}

\* the bodies: a value under at most n of the paths
EmptyBody == [i \in 1..Len(fuel_paths) |-> AbsentField]

RECURSIVE FuelBodies(_)
FuelBodies(n) ==
    IF n = 0 THEN {EmptyBody}
    ELSE FuelBodies(n - 1)
         \cup {[b EXCEPT ![i] = x] : b \in FuelBodies(n - 1),
                                     i \in 1..Len(fuel_paths),
                                     x \in FuelFieldValues}

\* isinstance(fuel_value, (int, float)): bool is a subclass of int
IsNumber(x) == x.type \in {"int", "float", "inf", "nan", "bool"}

\* fuel_value >= 0 (every comparison with nan is False)
NonNegative(x) == x.type # "nan" /\ x.v >= 0

\* int(fuel_value): truncation; OverflowError for an infinity
IntRaises(x) == x.type = "inf"
IntOf(x) == IF x.type = "float" THEN x.v \div 10 ELSE x.v

\* what the walk along path i finds (lines 427-432): nothing under
\* 'data' unless body['data'] is a dict
FieldAt(body, data_field, i) ==
    IF fuel_paths[i][1] = "data" /\ data_field # "dict" THEN AbsentField
    ELSE body[i]

\* the same loop without the test "fuel_value >= 0"
RECURSIVE scan_fuel_paths_any_sign(_, _, _)
scan_fuel_paths_any_sign(body, data_field, i) ==
    IF i > Len(fuel_paths) THEN 0
    ELSE LET x == FieldAt(body, data_field, i)
         IN  IF IsNumber(x) /\ x.type # "nan" /\ ~IntRaises(x)
             THEN IntOf(x)
             ELSE scan_fuel_paths_any_sign(body, data_field, i + 1)

\* the for loop of lines 425-440 from path i on; the bare except turns
\* every error of a path into "continue"
RECURSIVE scan_fuel_paths(_, _, _)
scan_fuel_paths(body, data_field, i) ==
    IF i > Len(fuel_paths) THEN 0
    ELSE LET x == FieldAt(body, data_field, i)
         IN  IF IsNumber(x) /\ NonNegative(x) /\ ~IntRaises(x)
             THEN IntOf(x)
             ELSE scan_fuel_paths(body, data_field, i + 1)

\* outcomes of one requests.get of the user data
FuelGetOutcomes == {"200", "404", "500", "network_error"}
RefreshOutcomes == {"200", "200_badjson", "500", "network_error"}

Returned(n) == [called |-> TRUE, raised |-> FALSE, value |-> n]
Raised == [called |-> TRUE, raised |-> TRUE, value |-> 0]
NoFuelInfo == [called |-> FALSE, raised |-> FALSE, value |-> 0]

NoFuelResponse ==
    [first |-> "200", registered |-> FALSE, second |-> "200",
     json_ok |-> TRUE, data_field |-> "dict", can_claim |-> FALSE,
     claimed |-> FALSE, refresh |-> "200", body |-> EmptyBody,
     refreshed |-> EmptyBody]

\* the try block (lines 367-448) on the answers r of the remote service:
\*   first       the GET of line 378
\*   registered  register_user_to_frame(), called after a 404
\*   second      the GET of line 385
\*   json_ok     whether response.json() of line 390 parses
\*   data_field  body['data']: "dict", "non_dict" (None, a list, ...) or
\*               "absent" (no such key, or the body is not a dict)
\*   can_claim   data.canClaimFuel
\*   claimed     claim_fuel_reward()
\*   refresh     the GET of line 402 ("200_badjson": 200, body not JSON)
\*   body, refreshed   the values under fuel_paths in the two bodies
fuel_info_try(r) ==
    LET status == IF r.first = "404" /\ r.registered THEN r.second
                  ELSE r.first
        claim == r.data_field = "dict" /\ r.can_claim /\ r.claimed
    IN  CASE r.first = "network_error" -> Raised
          [] r.first = "404" /\ ~r.registered -> Returned(0)
          [] status = "network_error" -> Raised
          [] status # "200" -> Returned(0)
          [] ~r.json_ok -> Raised
          [] r.data_field = "non_dict" -> Raised
          [] claim /\ r.refresh \in {"network_error", "200_badjson"} -> Raised
          [] claim /\ r.refresh = "200" ->
                Returned(scan_fuel_paths(r.refreshed, r.data_field, 1))
          [] OTHER -> Returned(scan_fuel_paths(r.body, r.data_field, 1))

\* with "except Exception" (lines 450-452)
get_user_fuel_info(r) ==
    LET res == fuel_info_try(r)
    IN  IF res.raised THEN Returned(0) ELSE res

\* ================================================================== state
VARIABLES
    mode,                \* "threaded" | "sequential" | "timing" | "mech" | "submit"
    fuel_strategy,       \* global_fuel_strategy
    min_fuel_threshold,  \* global_min_fuel_threshold
    team_preference,     \* global_team_preference
    now,                 \* the clock, datetime.now(pytz.UTC)
    \* run_account_continuous_thread
    t_pc,                \* where the thread is
    last_match_id,       \* "None" for None
    is_first_vote,
    votes_attempted,     \* whether the thread has called submit_prediction
    vote_delay_seconds,
    bot_fuel_amount,     \* bot.fuel_amount; 0 for None
    current_match,       \* matchData[0] as fetched in this cycle
    delay_remaining,     \* delay_remaining / remaining_delay of the countdowns
    attempt,             \* wait_for_next_match's attempt
    exit_reason,
    \* continuous_multi_account_vote
    s_pc,                \* where the sequential loop is
    active_accounts,     \* the list, as account indices in order
    acc_fuel,            \* acc['fuel'] of every account
    is_first_vote_cycle,
    zero_readings,       \* account -> cycles in a row the loop read no fuel
    account_delays,      \* account index -> delay of this cycle
    pass,                \* the copy active_accounts[:] being iterated
    k,                   \* position in pass
    successful_votes,
    fuel_to_use,         \* fuel_to_use of the account at position k
    seq_current_fuel,    \* current_fuel of the account at position k
    \* what the last step did
    vote,                \* the PUT it issued, or NoVote
    vote_origin,         \* the loop that issued it
    slept,               \* seconds passed to time.sleep in the step
    failure,             \* the failure the step met, "none" if none
    found_match_id,      \* _id of the match wait_for_next_match returned, ""
    \* show_match_timing_info / select_mech_by_preference called directly
    match_data, timing_result, mech_details, selected_mech, selected_by,
    \* a bot whose submit_prediction is called directly
    bot_max_fuel,        \* bot.max_fuel; 0 when there is no such bot
    pending_call,        \* the outbound call a vote attempt is blocked in
    \* threaded_continuous_multi_account_vote and its threads
    unit_pc,             \* account -> where its thread is
    rng_state,           \* the generator of the random module
    thread_seed,         \* account -> thread_seed of its thread, -1: none
    unit_delays,         \* account -> the delays its thread has drawn
    \* threaded_multi_account_vote, one threaded pass
    worker_pc,           \* account -> where process_single_account_vote is
    results_queue,       \* results_queue, oldest record first
    all_results,         \* all_results
    pool_pc,             \* where the pass is
    \* get_user_fuel_info called directly
    fuel_response,       \* what the remote service answers
    fuel_info,           \* the value returned, NoFuelInfo before the call
    \* what the submit_prediction called directly has fetched
    latest_match_id,     \* get_latest_match_id's result, "" for None
    submit_match,        \* the match details it fetched afterwards
    \* farcaster_auto_vote.py: the continuous loop of main and
    \* continuous_auto_vote
    solo_pc,             \* where the loop is
    vote_count,
    main_fuel_response,  \* the answer to the loop's balance request
    main_fuel_info,      \* fuel_info, the value get_user_fuel_info returned
    current_fuel_check,
    \* one of the loops "while datetime.now() < target" run alone
    wait_pc,             \* where the loop is
    wait_loop,           \* which of the loops it is
    wait_target          \* voting_start or voting_end, in seconds

configVars == <<mode, fuel_strategy, min_fuel_threshold, team_preference>>
threadVars == <<t_pc, last_match_id, is_first_vote, votes_attempted, vote_delay_seconds,
                bot_fuel_amount, current_match,
                delay_remaining, attempt, exit_reason>>
seqVars == <<s_pc, active_accounts, acc_fuel, is_first_vote_cycle, zero_readings,
             account_delays, pass, k, successful_votes, fuel_to_use,
             seq_current_fuel>>
eventVars == <<vote, vote_origin, slept, failure, found_match_id>>
pureVars == <<match_data, timing_result, mech_details, selected_mech,
              selected_by, bot_max_fuel>>
unitVars == <<unit_pc, rng_state, thread_seed, unit_delays>>
poolVars == <<worker_pc, results_queue, all_results, pool_pc>>
fuelInfoVars == <<fuel_response, fuel_info>>
snapVars == <<latest_match_id, submit_match>>
soloVars == <<solo_pc, vote_count, main_fuel_response, main_fuel_info,
              current_fuel_check>>
waitVars == <<wait_pc, wait_loop, wait_target>>
restVars == <<unitVars, poolVars, fuelInfoVars, snapVars, soloVars, waitVars>>
vars == <<configVars, now, threadVars, seqVars, eventVars, pureVars,
          pending_call, restVars>>

NoTimingMatch == [votingStartTime |-> MissingIso, votingEndTime |-> MissingIso,
                  endTime |-> MissingIso]
NoResult == <<"", 0>>

ThreadIdle ==
    /\ t_pc = "idle"
    /\ last_match_id = "None"
    /\ is_first_vote = TRUE
    /\ votes_attempted = FALSE
    /\ vote_delay_seconds = 0
    /\ bot_fuel_amount = 0
    /\ current_match = NoMatch
    /\ delay_remaining = 0
    /\ attempt = 0
    /\ exit_reason = ""

NoEvent ==
    /\ vote = NoVote
    /\ vote_origin = ""
    /\ slept = 0
    /\ failure = "none"
    /\ found_match_id = ""

PureIdle ==
    /\ match_data = NoTimingMatch
    /\ timing_result = NoResult
    /\ mech_details = <<>>
    /\ selected_mech = NoMech
    /\ selected_by = ""
    /\ bot_max_fuel = 0

\* time.sleep(d): the clock reads d later (MaxTime is "MaxTime or later")
Sleep(d) == now' = Min2(now + d, MaxTime)

\* a step that issues no vote
Quiet(d, f) ==
    /\ vote' = NoVote
    /\ vote_origin' = ""
    /\ slept' = d
    /\ failure' = f
    /\ found_match_id' = ""
    /\ Sleep(d)

\* the step without its time.sleep
Restart_without_sleep(d, f) ==
    /\ vote' = NoVote
    /\ vote_origin' = ""
    /\ slept' = 0
    /\ failure' = f
    /\ found_match_id' = ""
    /\ now' = 0

\* time.sleep(d) after which the loop holds no timestamp of a match: only
\* differences between the clock and the timestamps of the match in hand
\* are ever read, so the origin of the clock is moved to the instant
\* the sleep ends
Restart(d, f) ==
    /\ vote' = NoVote
    /\ vote_origin' = ""
    /\ slept' = d
    /\ failure' = f
    /\ found_match_id' = ""
    /\ now' = 0

\* the step in which wait_for_next_match returns (True, current_match),
\* followed by time.sleep(d): the loop holds the match returned only as
\* new_match_data, which it does not read
Found(d, id) ==
    /\ vote' = NoVote
    /\ vote_origin' = ""
    /\ slept' = d
    /\ failure' = "none"
    /\ found_match_id' = id
    /\ now' = 0

\* ------------------------------------------- run_account_continuous_thread
\* wait_for_next_match's max_wait_minutes.  The callers pass 30; every
\* attempt is alike, so the loop is modelled with fewer of them.
max_wait_minutes == 2

\* the arguments of time.sleep, in seconds
sleep_no_fuel == 300
sleep_no_match == 120
sleep_vote_failed == 120
sleep_unknown_status == 120
sleep_cycle_error == 60
sleep_cycle_end == 5
sleep_seek_retry == 60
sleep_no_next_match == 300
sleep_slice == 30
delay_slice == 10

\* lines 1049-1070: the fuel for this cycle, 0 when the balance is below
\* the threshold (the three branches test the same condition)
vote_fuel_amount(strategy, threshold, fuel) ==
    IF fuel >= threshold
    THEN IF strategy \in {"conservative", "custom"} THEN threshold ELSE fuel
    ELSE 0

\* line 1027
bot_team_pref(pref) == IF pref = "auto" THEN "None" ELSE pref

\* current_match.get('_id', 'Unknown')
match_id_of(m) == IF m._id = "" THEN "Unknown" ELSE m._id

\* "except Exception" of the cycle (lines 1235-1237): the error is
\* printed, the thread sleeps a minute and the while loop goes on
cycle_exception_exits(f) ==
    /\ t_pc' = "exited"
    /\ exit_reason' = "exception"
    /\ Restart(0, f)
    /\ UNCHANGED <<last_match_id, is_first_vote, votes_attempted, vote_delay_seconds,
                   bot_fuel_amount, current_match, delay_remaining, attempt>>

cycle_exception(f) ==
    /\ Restart(sleep_cycle_error, f)
    /\ UNCHANGED threadVars

\* the top of the while loop up to the branch on the timing status
\* (lines 1042-1110, and the branches that only sleep).  fuel is
\* current_account_fuel, the balance get_user_fuel_info returns; it is read
\* again only to be printed.
\* bot.fuel_amount is assigned here before any use, so it is cleared
\* wherever the loop starts over.
ThreadCycle ==
    /\ mode = "threaded" /\ t_pc = "cycle"
    /\ \E amount \in {vote_fuel_amount(fuel_strategy, min_fuel_threshold, fuel) :
                        fuel \in FuelValues} :
            IF amount = 0
            THEN \* insufficient fuel: sleep 5 minutes, next cycle
                 /\ Restart(sleep_no_fuel, "insufficient_fuel")
                 /\ UNCHANGED threadVars
            ELSE
              \/ \E shape \in FailShapes :
                    \* no match: 2 minutes; KeyError (line 1235): 1 minute
                    IF shape = "no_key"
                    THEN cycle_exception("exception")
                    ELSE /\ Restart(sleep_no_match, "no_match")
                         /\ UNCHANGED threadVars
              \/ \E m \in LoopMatches :
                    LET match_id == match_id_of(m)
                        new_match == last_match_id # match_id
                        status == show_match_timing_info(m, now)[1]
                        since == now - parse_iso_time(m.votingStartTime).utc
                    IN  /\ last_match_id' = match_id
                        /\ is_first_vote' = (is_first_vote /\ ~new_match)
                        /\ \E d \in IF new_match /\ ~is_first_vote
                                    THEN min_delay..max_delay
                                    ELSE IF new_match THEN {0}
                                    ELSE {vote_delay_seconds} :
                            /\ vote_delay_seconds' = d
                            /\ CASE status = "waiting" ->
                                      /\ t_pc' = "wait_start"
                                      /\ current_match' = m
                                      /\ delay_remaining' = 0
                                      /\ bot_fuel_amount' = amount
                                      /\ Quiet(0, "none")
                                 [] status = "open" ->
                                      /\ current_match' = m
                                      /\ bot_fuel_amount' = amount
                                      /\ IF d > 0 /\ since < d
                                         THEN /\ t_pc' = "delay_open"
                                              /\ delay_remaining' = d - since
                                         ELSE /\ t_pc' = "submit"
                                              /\ delay_remaining' = 0
                                      /\ Quiet(0, "none")
                                 [] status = "closed" ->
                                      /\ t_pc' = "seek"
                                      /\ current_match' = NoMatch
                                      /\ delay_remaining' = 0
                                      /\ bot_fuel_amount' = 0
                                      /\ Restart(0, "none")
                                 [] OTHER ->
                                      /\ t_pc' = "cycle"
                                      /\ current_match' = NoMatch
                                      /\ delay_remaining' = 0
                                      /\ bot_fuel_amount' = 0
                                      /\ Restart(sleep_unknown_status
                                                 + sleep_cycle_end,
                                               "status_" \o status)
                        /\ UNCHANGED <<attempt, exit_reason, votes_attempted>>
    /\ UNCHANGED <<configVars, seqVars, pureVars, pending_call, restVars>>

\* back to the top of the while loop
ToCycle ==
    /\ t_pc' = "cycle"
    /\ current_match' = NoMatch
    /\ delay_remaining' = 0
    /\ attempt' = 0
    /\ bot_fuel_amount' = 0

\* one pass of "while now < voting_start" (lines 1120-1125); when the
\* loop ends, the jitter countdown starts or, with no delay, the cycle ends
\* (the 'waiting' branch submits no vote itself)
ThreadWaitStart ==
    /\ mode = "threaded" /\ t_pc = "wait_start"
    /\ LET voting_start == parse_iso_time(current_match.votingStartTime).utc
       IN  IF now < voting_start
           THEN /\ Quiet(Min2(sleep_slice, voting_start - now), "none")
                /\ UNCHANGED <<t_pc, current_match, delay_remaining, attempt, bot_fuel_amount>>
           ELSE IF vote_delay_seconds > 0
           THEN /\ t_pc' = "delay_wait"
                /\ delay_remaining' = vote_delay_seconds
                /\ Quiet(0, "none")
                /\ UNCHANGED <<current_match, attempt, bot_fuel_amount>>
           ELSE /\ ToCycle
                /\ Restart(sleep_cycle_end, "none")
    /\ UNCHANGED <<configVars, seqVars, last_match_id, is_first_vote, votes_attempted,
                   vote_delay_seconds, exit_reason, pureVars, pending_call, restVars>>

\* one pass of the countdown of lines 1135-1139 ('waiting' branch); after
\* the last pass the branch ends and the cycle sleeps 5 s
ThreadDelayWait ==
    /\ mode = "threaded" /\ t_pc = "delay_wait"
    /\ LET sleep_time == Min2(delay_slice, delay_remaining)
       IN  IF delay_remaining - sleep_time > 0
           THEN /\ delay_remaining' = delay_remaining - sleep_time
                /\ Quiet(sleep_time, "none")
                /\ UNCHANGED <<t_pc, current_match, attempt, bot_fuel_amount>>
           ELSE /\ ToCycle
                /\ Restart(sleep_time + sleep_cycle_end, "none")
    /\ UNCHANGED <<configVars, seqVars, last_match_id, is_first_vote, votes_attempted,
                   vote_delay_seconds, exit_reason, pureVars, pending_call, restVars>>

\* the 'open' branch without the countdown of the remaining delay
ThreadDelayOpen_without_wait ==
    /\ mode = "threaded" /\ t_pc = "delay_open"
    /\ delay_remaining' = 0
    /\ t_pc' = "submit"
    /\ Quiet(0, "none")
    /\ UNCHANGED <<configVars, seqVars, last_match_id, is_first_vote, votes_attempted,
                   vote_delay_seconds, bot_fuel_amount,
                   current_match, attempt, exit_reason, pureVars, pending_call, restVars>>

\* one pass of the countdown of lines 1160-1164 ('open' branch); after the
\* last pass the vote is submitted
ThreadDelayOpen ==
    /\ mode = "threaded" /\ t_pc = "delay_open"
    /\ LET sleep_time == Min2(delay_slice, delay_remaining)
       IN  /\ delay_remaining' = delay_remaining - sleep_time
           /\ t_pc' = IF delay_remaining - sleep_time > 0
                      THEN "delay_open" ELSE "submit"
           /\ Quiet(sleep_time, "none")
    /\ UNCHANGED <<configVars, seqVars, last_match_id, is_first_vote, votes_attempted,
                   vote_delay_seconds, bot_fuel_amount,
                   current_match, attempt, exit_reason, pureVars, pending_call, restVars>>

\* the outbound calls of one submit_prediction(), in the order they are
\* made, and the timeout argument of each (0: requests is given none and
\* waits for the answer without limit)
request_timeout == 10
VoteCalls == {"user_data", "latest_match", "match_details", "prediction"}
call_timeout(c) == IF c = "latest_match" THEN 0 ELSE request_timeout

\* the calls a remote service that stops answering blocks for ever; in
\* the others requests raises Timeout, which the answers below hold as a
\* balance of 0, no match details and a network error of the PUT
UnboundedCalls == {c \in VoteCalls : call_timeout(c) = 0}

\* what the remote service answers during one run_auto_vote or
\* submit_prediction call (first: the fetch run_auto_vote makes itself):
\* every way the call ends before the PUT (once each), and every
\* combination of balance, match, mech data and PUT outcome otherwise
GoodAnswer(current_fuel, id, mechs, http) ==
    [first |-> "match", current_fuel |-> current_fuel, latest |-> id,
     resp |-> [shape |-> "match", _id |-> id, mechs |-> mechs],
     fid_ok |-> TRUE, http |-> http]

SubmitAnswers(fuels, ids) ==
    {GoodAnswer(f, id, mechs, http) :
        f \in fuels, id \in ids, mechs \in MechOptions \ {"none"},
        http \in HttpOutcomes}
    \cup {[GoodAnswer(1, "m1", "ids", "200") EXCEPT !.latest = ""],
          [GoodAnswer(1, "m1", "ids", "200") EXCEPT !.latest = "m2"],
          [GoodAnswer(1, "m1", "ids", "200") EXCEPT !.resp._id = ""],
          [GoodAnswer(1, "m1", "ids", "200") EXCEPT !.resp.mechs = "none"],
          [GoodAnswer(1, "m1", "ids", "200") EXCEPT !.fid_ok = FALSE],
          [GoodAnswer(1, "m1", "ids", "200") EXCEPT !.first = "None"]}
    \cup {[GoodAnswer(1, "m1", "ids", "200")
             EXCEPT !.resp = [shape |-> s, _id |-> "", mechs |-> "none"]] :
          s \in FailShapes}

\* success = bot.submit_prediction()  (line 1173)
ThreadSubmit ==
    /\ mode = "threaded" /\ t_pc = "submit"
    /\ \/ /\ \E a \in SubmitAnswers(FuelValues, MatchIds) :
              LET res == submit_prediction(bot_fuel_amount, thread_max_fuel,
                                           bot_team_pref(team_preference),
                                           a.current_fuel, a.latest, a.resp,
                                           a.fid_ok, a.http)
              IN  /\ vote' = res
                  /\ vote_origin' = IF res.sent THEN "thread" ELSE ""
                  /\ t_pc' = IF res.success THEN "vote_ok" ELSE "vote_failed"
          /\ UNCHANGED pending_call
       \/ \* the remote service never answers a call made without timeout
          /\ \E c \in UnboundedCalls : pending_call' = c
          /\ t_pc' = "blocked"
          /\ vote' = NoVote /\ vote_origin' = ""
    /\ slept' = 0 /\ failure' = "none" /\ Sleep(0)
    /\ found_match_id' = ""
    /\ votes_attempted' = TRUE
    /\ UNCHANGED <<configVars, seqVars, last_match_id, is_first_vote,
                   vote_delay_seconds, bot_fuel_amount, current_match,
                   delay_remaining, attempt, exit_reason, pureVars, restVars>>

\* the branch on success (lines 1175-1211): after a successful vote the
\* wait for voting_end starts; after a failed one the thread sleeps 2
\* minutes, then the 5 s of the cycle end
ThreadAfterVote ==
    /\ mode = "threaded" /\ t_pc \in {"vote_ok", "vote_failed"}
    /\ IF t_pc = "vote_ok"
       THEN IF Truthy(voting_end_str(current_match))
            THEN /\ t_pc' = "cooldown"
                 /\ Quiet(0, "none")
                 /\ UNCHANGED <<current_match, delay_remaining, attempt,
                                bot_fuel_amount>>
            ELSE /\ ToCycle
                 /\ Restart(sleep_no_next_match + sleep_cycle_end,
                            "no_end_time")
       ELSE /\ ToCycle
            /\ Restart(sleep_vote_failed + sleep_cycle_end, "vote_failed")
    /\ UNCHANGED <<configVars, seqVars, last_match_id, is_first_vote, votes_attempted,
                   vote_delay_seconds, exit_reason, pureVars, pending_call, restVars>>

\* the branch of a successful vote without the "while now < voting_end"
\* loop: wait_for_next_match is called at once
ThreadCooldown_without_wait ==
    /\ mode = "threaded" /\ t_pc = "cooldown"
    /\ t_pc' = "seek"
    /\ current_match' = NoMatch
    /\ delay_remaining' = 0
    /\ attempt' = 0
    /\ bot_fuel_amount' = 0
    /\ Restart(0, "none")
    /\ UNCHANGED <<configVars, seqVars, last_match_id, is_first_vote, votes_attempted,
                   vote_delay_seconds, exit_reason, pureVars, pending_call, restVars>>

\* one pass of "while now < voting_end" (lines 1186-1191); when the loop
\* ends wait_for_next_match is called
ThreadCooldown ==
    /\ mode = "threaded" /\ t_pc = "cooldown"
    /\ LET voting_end == parse_iso_time(voting_end_str(current_match)).utc
       IN  IF now < voting_end
           THEN /\ Quiet(Min2(sleep_slice, voting_end - now), "none")
                /\ UNCHANGED <<t_pc, current_match, delay_remaining, attempt, bot_fuel_amount>>
           ELSE /\ t_pc' = "seek"
                /\ current_match' = NoMatch
                /\ delay_remaining' = 0
                /\ attempt' = 0
                /\ bot_fuel_amount' = 0
                /\ Restart(0, "none")
    /\ UNCHANGED <<configVars, seqVars, last_match_id, is_first_vote, votes_attempted,
                   vote_delay_seconds, exit_reason, pureVars, pending_call, restVars>>

\* one attempt of wait_for_next_match (lines 172-225) and, when it returns,
\* what the thread does with the result (lines 1197-1205, 1218-1226)
ThreadSeek ==
    /\ mode = "threaded" /\ t_pc = "seek"
    /\ IF attempt >= max_wait_minutes
       THEN \* (False, None): sleep 5 minutes, then the 5 s of the cycle end
            /\ ToCycle
            /\ Restart(sleep_no_next_match + sleep_cycle_end, "no_next_match")
            /\ UNCHANGED last_match_id
       ELSE
         \/ \E shape \in FailShapes :
                     /\ attempt' = attempt + 1
                     /\ Restart(sleep_seek_retry,
                              IF shape = "no_key" THEN "exception"
                              ELSE "no_match")
                     /\ UNCHANGED <<t_pc, last_match_id, current_match,
                                    delay_remaining, bot_fuel_amount>>
         \/ \E m \in LoopMatches :
            LET status == show_match_timing_info(m, now)[1]
            IN       CASE status = "waiting" ->
                            /\ t_pc' = "seek_wait"
                            /\ current_match' = m
                            /\ Quiet(0, "none")
                            /\ UNCHANGED <<last_match_id, delay_remaining, attempt, bot_fuel_amount>>
                       [] status = "open" ->
                            \* (True, match): continue, no sleep
                            /\ ToCycle
                            /\ last_match_id' = "None"
                            /\ Found(0, match_id_of(m))
                       [] OTHER ->
                            /\ attempt' = attempt + 1
                            /\ Restart(sleep_seek_retry,
                                     IF status = "closed" THEN "none"
                                     ELSE "status_" \o status)
                            /\ UNCHANGED <<t_pc, last_match_id, current_match,
                                    delay_remaining, bot_fuel_amount>>
    /\ UNCHANGED <<configVars, seqVars, is_first_vote, votes_attempted, vote_delay_seconds,
                   exit_reason, pureVars, pending_call, restVars>>

\* one pass of wait_for_next_match's "while now < voting_start" (lines
\* 198-203); when it ends the function returns (True, match)
ThreadSeekWait ==
    /\ mode = "threaded" /\ t_pc = "seek_wait"
    /\ LET voting_start == parse_iso_time(current_match.votingStartTime).utc
       IN  IF now < voting_start
           THEN /\ Quiet(Min2(sleep_slice, voting_start - now), "none")
                /\ UNCHANGED <<t_pc, last_match_id, current_match,
                               delay_remaining, attempt, bot_fuel_amount>>
           ELSE /\ ToCycle
                /\ last_match_id' = "None"
                /\ Found(0, match_id_of(current_match))
    /\ UNCHANGED <<configVars, seqVars, is_first_vote, votes_attempted, vote_delay_seconds,
                   exit_reason, pureVars, pending_call, restVars>>

\* Ctrl+C: threaded_continuous_multi_account_vote catches KeyboardInterrupt
\* in the main thread and kills the process (lines 1289-1294); the
\* thread's locals go with it
ThreadInterrupt ==
    /\ mode = "threaded" /\ t_pc \notin {"idle", "exited"}
    /\ t_pc' = "exited"
    /\ exit_reason' = "KeyboardInterrupt"
    /\ last_match_id' = "None"
    /\ is_first_vote' = TRUE
    /\ votes_attempted' = FALSE
    /\ vote_delay_seconds' = 0
    /\ bot_fuel_amount' = 0
    /\ current_match' = NoMatch
    /\ delay_remaining' = 0
    /\ attempt' = 0
    /\ Restart(0, "none")
    /\ pending_call' = ""
    /\ UNCHANGED <<configVars, seqVars, pureVars, restVars>>

\* ------------------------------------------- continuous_multi_account_vote
\* the accounts of accounts.txt, by index
MaxAccounts == 2
Accounts == 1..MaxAccounts

\* the arguments of time.sleep, in seconds

sleep_seq_retry == 60
sleep_all_failed == 120
sleep_between_accounts == 2
seq_delay_slice == 5

\* balances read in the sequential loop, whose bots are built with the
\* balance as max_fuel: none, one below the conservative threshold, and
\* one above every configured amount
SeqFuelValues == {0, conservative_threshold - 1, thread_max_fuel + FuelAboveCap}

\* the loop reads only the timing fields of the match it fetches (the
\* votes fetch the match themselves), so one _id stands for all
SeqMatches == {m \in LoopMatches : m._id = "m1"}

\* run_auto_vote: its own match fetch, then submit_prediction()
run_auto_vote(fuel_amount, max_fuel, pref, a) ==
    IF a.first = "None" THEN NoVote
    ELSE submit_prediction(fuel_amount, max_fuel, pref, a.current_fuel,
                           a.latest, a.resp, a.fid_ok, a.http)

\* lines 1639-1647
seq_fuel_to_use(strategy, threshold, current_fuel) ==
    CASE strategy = "conservative" -> threshold
      [] strategy = "max" -> current_fuel
      [] strategy = "custom" -> Min2(threshold, current_fuel)
      [] OTHER -> current_fuel

\* the entry is added once more instead
Remove_and_append(list, acc) == Append(list, acc)

\* active_accounts.remove(acc)
Remove(list, acc) == SelectSeq(list, LAMBDA x : x # acc)

SeqFrame ==
    UNCHANGED <<configVars, t_pc, last_match_id, is_first_vote, votes_attempted,
                vote_delay_seconds, bot_fuel_amount, pureVars, restVars>>

\* the function returns: break, or an exception or KeyboardInterrupt
\* caught by the handlers around the while loop (lines 1746-1752)
SeqReturn(reason) ==
    /\ s_pc' = "done"
    /\ exit_reason' = reason
    /\ current_match' = NoMatch
    /\ delay_remaining' = 0
    /\ attempt' = 0
    /\ pass' = <<>>
    /\ k' = 0
    /\ successful_votes' = 0
    /\ fuel_to_use' = 0
    /\ seq_current_fuel' = 0
    /\ account_delays' = [a \in Accounts |-> 0]
    /\ UNCHANGED <<active_accounts, acc_fuel, is_first_vote_cycle, zero_readings>>

\* back to the top of the while loop; the per-cycle locals are assigned
\* again before they are read
SeqToCycle ==
    /\ s_pc' = "cycle"
    /\ current_match' = NoMatch
    /\ delay_remaining' = 0
    /\ attempt' = 0
    /\ pass' = <<>>
    /\ k' = 0
    /\ successful_votes' = 0
    /\ fuel_to_use' = 0
    /\ seq_current_fuel' = 0
    /\ account_delays' = [a \in Accounts |-> 0]
    /\ UNCHANGED exit_reason

\* lines 1593-1618: counters reset, one delay per active account (0 for
\* all of them in the first voting cycle), then the for loop starts
StartPass ==
    /\ s_pc' = "account"
    /\ successful_votes' = 0
    /\ is_first_vote_cycle' = FALSE
    /\ \E delays \in [Accounts -> min_delay..max_delay] :
          account_delays' =
              [a \in Accounts |->
                  IF is_first_vote_cycle \/ \A i \in 1..Len(active_accounts) :
                                               active_accounts[i] # a
                  THEN 0 ELSE delays[a]]
    /\ pass' = active_accounts
    /\ k' = 1
    /\ delay_remaining' = 0
    /\ attempt' = 0
    /\ fuel_to_use' = 0
    /\ seq_current_fuel' = 0
    /\ UNCHANGED <<active_accounts, acc_fuel, exit_reason, zero_readings>>

\* the top of the while loop up to the branch on the voting status
\* (lines 1525-1591)
SeqCycle ==
    /\ mode = "sequential" /\ s_pc = "cycle"
    /\ IF active_accounts = <<>>
       THEN \* "No active accounts remaining!": break
            /\ SeqReturn("no_active_accounts")
            /\ Restart(0, "none")
       ELSE
         \/ \E shape \in FailShapes :
               IF shape = "no_key"
               THEN \* KeyError, caught at line 1750: the function ends
                    /\ SeqReturn("exception")
                    /\ Restart(0, "exception")
               ELSE /\ Restart(sleep_seq_retry, "no_match")
                    /\ UNCHANGED <<threadVars, seqVars>>
         \/ \E m \in SeqMatches :
               LET s == m.votingStartTime
                   e == voting_end_str(m)
                   vs == parse_iso_time(s)
                   ve == parse_iso_time(e)
               IN  IF ~(Truthy(s) /\ Truthy(e))
                   THEN /\ Restart(sleep_seq_retry, "no_timing")
                        /\ UNCHANGED <<threadVars, seqVars>>
                   ELSE IF ~vs.ok
                   THEN \* now_utc < None: TypeError, caught at line 1750
                        /\ SeqReturn("exception")
                        /\ Restart(0, "exception")
                   ELSE IF now < vs.utc
                   THEN /\ s_pc' = "wait_start"
                        /\ current_match' = m
                        /\ Quiet(0, "none")
                        /\ UNCHANGED <<delay_remaining, attempt, exit_reason,
                                       active_accounts, acc_fuel,
                                       is_first_vote_cycle, zero_readings, account_delays,
                                       pass, k, successful_votes, fuel_to_use,
                                       seq_current_fuel>>
                   ELSE IF ~ve.ok
                   THEN /\ SeqReturn("exception")
                        /\ Restart(0, "exception")
                   ELSE IF now <= ve.utc
                   THEN /\ current_match' = m
                        /\ StartPass
                        /\ Quiet(0, "none")
                   ELSE /\ Restart(sleep_seq_retry, "none")
                        /\ UNCHANGED <<threadVars, seqVars>>
    /\ SeqFrame
    /\ UNCHANGED pending_call

\* one pass of "while now < voting_start" (lines 1571-1576); when it ends
\* the voting pass starts
SeqWaitStart ==
    /\ mode = "sequential" /\ s_pc = "wait_start"
    /\ LET voting_start == parse_iso_time(current_match.votingStartTime).utc
       IN  IF now < voting_start
           THEN /\ Quiet(Min2(sleep_slice, voting_start - now), "none")
                /\ UNCHANGED <<threadVars, seqVars>>
           ELSE /\ StartPass
                /\ Quiet(0, "none")
                /\ UNCHANGED current_match
    /\ SeqFrame
    /\ UNCHANGED pending_call

\* Ctrl+C raises KeyboardInterrupt in the main thread, which runs the
\* sequential loop.  Raised inside the "try: ... except:" around one
\* fuel path (get_user_fuel_info, lines 426-440) it is caught there and
\* the scan goes on with the next path; the call returns a balance and
\* its caller goes on.
InterruptOutcomes == {"none", "interrupt_swallowed"}

\* answers of the remote service to the GET of get_user_fuel_info that
\* are failures of the request, not balances: a timeout, a status that is
\* not 200, a body that is not JSON
FailedFuelResponses ==
    {[NoFuelResponse EXCEPT !.first = "network_error"],
     [NoFuelResponse EXCEPT !.first = "500"],
     [NoFuelResponse EXCEPT !.json_ok = FALSE]}

\* current_fuel = temp_bot.get_user_fuel_info() (line 1629): a balance the
\* service reports, or what the function returns when the request fails
SeqFuelReads ==
    {[failed |-> FALSE, value |-> v] : v \in SeqFuelValues}
    \cup {[failed |-> TRUE, value |-> get_user_fuel_info(r).value] :
            r \in FailedFuelResponses}

\* the head of the for loop body (lines 1626-1656): the balance is read;
\* an account with none is removed, otherwise its fuel_to_use is fixed and
\* its delay taken from account_delays (the entry is not read again and
\* is cleared)
SeqAccount ==
    /\ mode = "sequential" /\ s_pc = "account" /\ k <= Len(pass)
    /\ \E read \in SeqFuelReads, i \in InterruptOutcomes :
        LET acc == pass[k]
            current_fuel == read.value
            f == IF read.failed THEN "fuel_read_failed" ELSE i
        IN  IF current_fuel <= 0
            THEN /\ active_accounts' = Remove(active_accounts, acc)
                 /\ k' = k + 1
                 /\ account_delays' = [account_delays EXCEPT ![acc] = 0]
                 /\ zero_readings' = [zero_readings EXCEPT ![acc] = @ + 1]
                 /\ Quiet(0, f)
                 /\ UNCHANGED <<s_pc, acc_fuel, fuel_to_use, seq_current_fuel,
                                delay_remaining>>
            ELSE /\ acc_fuel' = [acc_fuel EXCEPT ![acc] = current_fuel]
                 /\ zero_readings' = [zero_readings EXCEPT ![acc] = 0]
                 /\ fuel_to_use' = seq_fuel_to_use(fuel_strategy,
                                                   min_fuel_threshold,
                                                   current_fuel)
                 /\ seq_current_fuel' = current_fuel
                 /\ delay_remaining' = account_delays[acc]
                 /\ account_delays' = [account_delays EXCEPT ![acc] = 0]
                 /\ s_pc' = IF account_delays[acc] > 0 THEN "account_delay"
                            ELSE "account_vote"
                 /\ Quiet(0, f)
                 /\ UNCHANGED <<active_accounts, k>>
    /\ UNCHANGED <<current_match, attempt, exit_reason, is_first_vote_cycle,
                   pass, successful_votes>>
    /\ SeqFrame
    /\ UNCHANGED pending_call

\* one pass of the countdown of lines 1658-1662
SeqAccountDelay ==
    /\ mode = "sequential" /\ s_pc = "account_delay"
    /\ LET sleep_time == Min2(seq_delay_slice, delay_remaining)
       IN  /\ delay_remaining' = delay_remaining - sleep_time
           /\ s_pc' = IF delay_remaining - sleep_time > 0
                      THEN "account_delay" ELSE "account_vote"
           /\ Quiet(sleep_time, "none")
    /\ UNCHANGED <<current_match, attempt, exit_reason, active_accounts,
                   acc_fuel, is_first_vote_cycle, zero_readings, account_delays, pass, k,
                   successful_votes, fuel_to_use, seq_current_fuel>>
    /\ SeqFrame
    /\ UNCHANGED pending_call

\* lines 1664-1669: the bot of the account at position k is built with
\* fuel_to_use and the balance just read, and run_auto_vote() is called
\* (submit_prediction reads the balance with get_user_fuel_info too)
SeqAccountVote ==
    /\ mode = "sequential" /\ s_pc = "account_vote"
    /\ \/ /\ \E a \in SubmitAnswers(SeqFuelValues, {"m1"}) :
              LET res == run_auto_vote(fuel_to_use, seq_current_fuel,
                                       bot_team_pref(team_preference), a)
              IN  /\ vote' = res
                  /\ vote_origin' = IF res.sent THEN "sequential" ELSE ""
                  /\ s_pc' = IF res.success THEN "vote_ok" ELSE "vote_failed"
          /\ failure' \in InterruptOutcomes
          /\ UNCHANGED pending_call
       \/ \* the remote service never answers a call made without timeout
          /\ \E c \in UnboundedCalls : pending_call' = c
          /\ s_pc' = "blocked"
          /\ vote' = NoVote /\ vote_origin' = ""
          /\ failure' = "none"
    /\ slept' = 0 /\ Sleep(0)
    /\ found_match_id' = ""
    /\ UNCHANGED <<current_match, delay_remaining, attempt, exit_reason,
                   active_accounts, acc_fuel, is_first_vote_cycle, zero_readings,
                   account_delays, pass, k, successful_votes, fuel_to_use,
                   seq_current_fuel>>
    /\ SeqFrame

\* lines 1671-1686: the bookkeeping of the result and the 2 s pause
\* before the next account
SeqAfterVote ==
    /\ mode = "sequential" /\ s_pc \in {"vote_ok", "vote_failed"}
    /\ LET acc == pass[k]
       IN  IF s_pc = "vote_ok"
           THEN /\ successful_votes' = successful_votes + 1
                /\ acc_fuel' = [acc_fuel EXCEPT ![acc] = @ - fuel_to_use]
                /\ Quiet(sleep_between_accounts, "none")
           ELSE /\ Quiet(sleep_between_accounts, "vote_failed")
                /\ UNCHANGED <<successful_votes, acc_fuel>>
    /\ s_pc' = "account"
    /\ k' = k + 1
    /\ fuel_to_use' = 0
    /\ seq_current_fuel' = 0
    /\ UNCHANGED <<current_match, delay_remaining, attempt, exit_reason,
                   active_accounts, is_first_vote_cycle, zero_readings, account_delays, pass>>
    /\ SeqFrame
    /\ UNCHANGED pending_call

\* after the for loop (lines 1688-1744, up to the next sleep loop)
SeqSummary ==
    /\ mode = "sequential" /\ s_pc = "account" /\ k > Len(pass)
    /\ IF successful_votes > 0
       THEN LET r == show_match_timing_info(current_match, now)
            IN  /\ IF r[1] = "open" /\ r[2] > 0
                   THEN /\ s_pc' = "wait_end"
                        /\ Quiet(0, "none")
                        /\ UNCHANGED current_match
                   ELSE \* wait_for_next_match fetches the match itself
                        /\ s_pc' = "seek"
                        /\ current_match' = NoMatch
                        /\ Restart(0, "none")
                /\ attempt' = 0
                /\ pass' = <<>>
                /\ k' = 0
                /\ successful_votes' = 0
                /\ account_delays' = [a \in Accounts |-> 0]
                /\ UNCHANGED <<delay_remaining, exit_reason,
                               fuel_to_use, seq_current_fuel>>
       ELSE /\ SeqToCycle
            /\ Restart(sleep_all_failed + sleep_cycle_end, "all_votes_failed")
    /\ UNCHANGED <<active_accounts, acc_fuel, is_first_vote_cycle, zero_readings>>
    /\ SeqFrame
    /\ UNCHANGED pending_call

\* one pass of "while now < voting_end" (lines 1711-1716)
SeqWaitEnd ==
    /\ mode = "sequential" /\ s_pc = "wait_end"
    /\ LET voting_end == parse_iso_time(voting_end_str(current_match)).utc
       IN  IF now < voting_end
           THEN /\ Quiet(Min2(sleep_slice, voting_end - now), "none")
                /\ UNCHANGED <<s_pc, current_match>>
           ELSE /\ s_pc' = "seek"
                /\ current_match' = NoMatch
                /\ Restart(0, "none")
    /\ UNCHANGED <<delay_remaining, attempt, exit_reason,
                   active_accounts, acc_fuel, is_first_vote_cycle, zero_readings,
                   account_delays, pass, k, successful_votes, fuel_to_use,
                   seq_current_fuel>>
    /\ SeqFrame
    /\ UNCHANGED pending_call

\* one attempt of wait_for_next_match and, when it returns, lines
\* 1730-1744
SeqSeek ==
    /\ mode = "sequential" /\ s_pc = "seek"
    /\ IF attempt >= max_wait_minutes
       THEN /\ SeqToCycle
            /\ Restart(sleep_no_next_match + sleep_cycle_end, "no_next_match")
       ELSE
         \/ \E shape \in FailShapes :
               /\ attempt' = attempt + 1
               /\ Restart(sleep_seek_retry,
                        IF shape = "no_key" THEN "exception" ELSE "no_match")
               /\ UNCHANGED <<s_pc, current_match, delay_remaining, pass, k,
                              successful_votes, fuel_to_use, seq_current_fuel,
                              account_delays, exit_reason>>
         \/ \E m \in SeqMatches :
               LET status == show_match_timing_info(m, now)[1]
               IN  CASE status = "waiting" ->
                          /\ s_pc' = "seek_wait"
                          /\ current_match' = m
                          /\ Quiet(0, "none")
                          /\ UNCHANGED <<attempt, delay_remaining, pass, k,
                                         successful_votes, fuel_to_use,
                                         seq_current_fuel, account_delays,
                                         exit_reason>>
                     [] status = "open" ->
                          /\ SeqToCycle
                          /\ Found(sleep_cycle_end, match_id_of(m))
                     [] OTHER ->
                          /\ attempt' = attempt + 1
                          /\ Restart(sleep_seek_retry,
                                   IF status = "closed" THEN "none"
                                   ELSE "status_" \o status)
                          /\ UNCHANGED <<s_pc, current_match, delay_remaining,
                                         pass, k, successful_votes,
                                         fuel_to_use, seq_current_fuel,
                                         account_delays, exit_reason>>
    /\ UNCHANGED <<active_accounts, acc_fuel, is_first_vote_cycle, zero_readings>>
    /\ SeqFrame
    /\ UNCHANGED pending_call

\* one pass of wait_for_next_match's "while now < voting_start"
SeqSeekWait ==
    /\ mode = "sequential" /\ s_pc = "seek_wait"
    /\ LET voting_start == parse_iso_time(current_match.votingStartTime).utc
       IN  IF now < voting_start
           THEN /\ Quiet(Min2(sleep_slice, voting_start - now), "none")
                /\ UNCHANGED <<s_pc, current_match, delay_remaining, attempt,
                               pass, k, successful_votes, fuel_to_use,
                               seq_current_fuel, account_delays, exit_reason>>
           ELSE /\ SeqToCycle
                /\ Found(sleep_cycle_end, match_id_of(current_match))
    /\ UNCHANGED <<active_accounts, acc_fuel, is_first_vote_cycle, zero_readings>>
    /\ SeqFrame
    /\ UNCHANGED pending_call

\* Ctrl+C: KeyboardInterrupt is caught at line 1746 and the function ends
SeqInterrupt ==
    /\ mode = "sequential" /\ s_pc \notin {"idle", "done"}
    /\ SeqReturn("KeyboardInterrupt")
    /\ Restart(0, "none")
    /\ pending_call' = ""
    /\ SeqFrame

\* time passing while the program runs (a remote call takes time)
Tick ==
    /\ mode \in {"threaded", "sequential"}
    /\ t_pc # "exited" /\ s_pc # "done"
    /\ now < MaxTime
    /\ now' = now + 1
    /\ vote' = NoVote /\ vote_origin' = "" /\ slept' = 0 /\ failure' = "none"
    /\ found_match_id' = ""
    /\ UNCHANGED <<configVars, threadVars, seqVars, pureVars, pending_call, restVars>>

\* ---------------------------------------------------------- specification
\* the parts of the program a specification leaves out have not started
UnitIdle ==
    /\ unit_pc = [a \in Accounts |-> "unstarted"]
    /\ rng_state = 0
    /\ thread_seed = [a \in Accounts |-> -1]
    /\ unit_delays = [a \in Accounts |-> <<>>]

PoolIdle ==
    /\ worker_pc = [a \in Accounts |-> "idle"]
    /\ results_queue = <<>>
    /\ all_results = <<>>
    /\ pool_pc = "idle"

FuelInfoIdle ==
    /\ fuel_response = NoFuelResponse
    /\ fuel_info = NoFuelInfo

NoSnapshot == [shape |-> "None", _id |-> "", mechs |-> "none"]

SnapIdle ==
    /\ latest_match_id = ""
    /\ submit_match = NoSnapshot

NoMainFuelResponse == [status |-> "", json_ok |-> FALSE, field |-> "absent", balance |-> 0]
NoMainFuelInfo == [type |-> "None", v |-> 0]

SoloIdle ==
    /\ solo_pc = "idle"
    /\ vote_count = 0
    /\ main_fuel_response = NoMainFuelResponse
    /\ main_fuel_info = NoMainFuelInfo
    /\ current_fuel_check = 0

WaitIdle ==
    /\ wait_pc = "idle"
    /\ wait_loop = ""
    /\ wait_target = 0

RestIdle ==
    /\ pending_call = ""
    /\ WaitIdle
    /\ UnitIdle
    /\ PoolIdle
    /\ FuelInfoIdle
    /\ SnapIdle
    /\ SoloIdle

LoopPreferences == {"auto", "blue"}

\* balances the start-up scan of main() recorded in acc['fuel']
ScanFuel == {0, LowFuel}

Init ==
    /\ mode \in {"threaded", "sequential"}
    /\ \E c \in FuelConfigs : fuel_strategy = c[1] /\ min_fuel_threshold = c[2]
    /\ team_preference \in LoopPreferences
    /\ now = 0
    /\ t_pc = IF mode = "threaded" THEN "cycle" ELSE "idle"
    /\ last_match_id = "None"
    /\ is_first_vote = TRUE
    /\ votes_attempted = FALSE
    /\ vote_delay_seconds = 0
    /\ bot_fuel_amount = 0
    /\ current_match = NoMatch
    /\ delay_remaining = 0
    /\ attempt = 0
    /\ exit_reason = ""
    /\ IF mode = "sequential"
       THEN \* lines 1496-1500: the accounts the scan found fuel for
            /\ acc_fuel \in [Accounts -> ScanFuel]
            /\ active_accounts =
                   SelectSeq([i \in Accounts |-> i], LAMBDA a : acc_fuel[a] > 0)
            /\ s_pc = IF active_accounts = <<>> THEN "done" ELSE "cycle"
       ELSE /\ acc_fuel = [a \in Accounts |-> 0]
            /\ active_accounts = <<>>
            /\ s_pc = "idle"
    /\ is_first_vote_cycle = TRUE
    /\ zero_readings = [a \in Accounts |-> 0]
    /\ account_delays = [a \in Accounts |-> 0]
    /\ pass = <<>>
    /\ k = 0
    /\ successful_votes = 0
    /\ fuel_to_use = 0
    /\ seq_current_fuel = 0
    /\ NoEvent
    /\ PureIdle
    /\ RestIdle

Next ==
    \/ ThreadCycle
    \/ ThreadWaitStart
    \/ ThreadDelayWait
    \/ ThreadDelayOpen
    \/ ThreadSubmit
    \/ ThreadAfterVote
    \/ ThreadCooldown
    \/ ThreadSeek
    \/ ThreadSeekWait
    \/ ThreadInterrupt
    \/ SeqCycle
    \/ SeqWaitStart
    \/ SeqAccount
    \/ SeqAccountDelay
    \/ SeqAccountVote
    \/ SeqAfterVote
    \/ SeqSummary
    \/ SeqWaitEnd
    \/ SeqSeek
    \/ SeqSeekWait
    \/ SeqInterrupt
    \/ Tick

Spec == Init /\ [][Next]_vars


\* ============================================ show_match_timing_info alone
SeqIdle ==
    /\ s_pc = "idle"
    /\ active_accounts = <<>>
    /\ acc_fuel = [a \in Accounts |-> 0]
    /\ is_first_vote_cycle = TRUE
    /\ zero_readings = [a \in Accounts |-> 0]
    /\ account_delays = [a \in Accounts |-> 0]
    /\ pass = <<>>
    /\ k = 0
    /\ successful_votes = 0
    /\ fuel_to_use = 0
    /\ seq_current_fuel = 0

\* every match_data the function can be handed, at every clock reading
TimingMatches == [votingStartTime : IsoStrings, votingEndTime : IsoStrings,
                  endTime : IsoStrings]

InitTiming ==
    /\ mode = "timing"
    /\ fuel_strategy = "max" /\ min_fuel_threshold = max_threshold
    /\ team_preference = "auto"
    /\ now \in Times
    /\ ThreadIdle /\ SeqIdle /\ NoEvent
    /\ match_data \in TimingMatches
    /\ timing_result = NoResult
    /\ mech_details = <<>>
    /\ selected_mech = NoMech
    /\ selected_by = ""
    /\ bot_max_fuel = 0
    /\ RestIdle

\* status, remaining_time = show_match_timing_info(match_data)
ShowMatchTimingInfo ==
    /\ mode = "timing" /\ timing_result = NoResult
    /\ timing_result' = show_match_timing_info(match_data, now)
    /\ UNCHANGED <<configVars, now, threadVars, seqVars, eventVars,
                   match_data, mech_details, selected_mech, selected_by,
                   bot_max_fuel, pending_call, restVars>>

NextTiming == ShowMatchTimingInfo

SpecTiming == InitTiming /\ [][NextTiming]_vars

\* ========================================= select_mech_by_preference alone
InitMech ==
    /\ mode = "mech"
    /\ fuel_strategy = "max" /\ min_fuel_threshold = max_threshold
    /\ team_preference \in TeamPreferences
    /\ now = 0
    /\ ThreadIdle /\ SeqIdle /\ NoEvent
    /\ match_data = NoTimingMatch
    /\ timing_result = NoResult
    /\ mech_details \in AllMechLists
    /\ selected_mech = NoMech
    /\ selected_by = ""
    /\ bot_max_fuel = 0
    /\ RestIdle

\* selected_mech = self.select_mech_by_preference(mech_details)
\* (farcaster_auto_vote_clean.py line 768)
SelectMech ==
    /\ mode = "mech" /\ selected_by = ""
    /\ selected_by' = "clean"
    /\ selected_mech' = select_mech_by_preference(team_preference, mech_details)
    /\ UNCHANGED <<configVars, now, threadVars, seqVars, eventVars,
                   match_data, timing_result, mech_details, bot_max_fuel, pending_call, restVars>>

\* the same call in farcaster_auto_vote.py (line 527)
SelectMechAutoVote ==
    /\ mode = "mech" /\ selected_by = ""
    /\ selected_by' = "auto_vote"
    /\ selected_mech' = select_mech_by_preference_auto_vote(team_preference,
                                                            mech_details)
    /\ UNCHANGED <<configVars, now, threadVars, seqVars, eventVars,
                   match_data, timing_result, mech_details, bot_max_fuel, pending_call, restVars>>

NextMech ==
    \/ SelectMech
    \/ SelectMechAutoVote

SpecMech == InitMech /\ [][NextMech]_vars

\* ====================================== run_account_continuous_thread alone
InitThread == Init /\ mode = "threaded"

NextThread ==
    \/ ThreadCycle
    \/ ThreadWaitStart
    \/ ThreadDelayWait
    \/ ThreadDelayOpen
    \/ ThreadSubmit
    \/ ThreadAfterVote
    \/ ThreadCooldown
    \/ ThreadSeek
    \/ ThreadSeekWait
    \/ ThreadInterrupt
    \/ Tick

SpecThread == InitThread /\ [][NextThread]_vars

\* ================================================= submit_prediction alone
\* self.fuel_amount of a bot (0 for None) and its self.max_fuel: the
\* values the callers construct bots with (lines 968, 1030, 1073, 1670)
FuelAmounts == {0} \cup (FuelValues \ {0}) \cup CustomAmounts
MaxFuels == {thread_max_fuel} \cup (FuelValues \ {0})

InitSubmit ==
    /\ mode = "submit"
    /\ fuel_strategy = "max" /\ min_fuel_threshold = max_threshold
    /\ team_preference \in {"None", "blue"}
    /\ now = 0
    /\ t_pc = "idle"
    /\ last_match_id = "None"
    /\ is_first_vote = TRUE
    /\ votes_attempted = FALSE
    /\ vote_delay_seconds = 0
    /\ bot_fuel_amount \in FuelAmounts
    /\ current_match = NoMatch
    /\ delay_remaining = 0
    /\ attempt = 0
    /\ exit_reason = ""
    /\ SeqIdle /\ NoEvent
    /\ match_data = NoTimingMatch
    /\ timing_result = NoResult
    /\ mech_details = <<>>
    /\ selected_mech = NoMech
    /\ selected_by = ""
    /\ bot_max_fuel \in MaxFuels
    /\ RestIdle

\* bot.submit_prediction() on a bot built with fuel_amount and max_fuel
SubmitPrediction ==
    /\ mode = "submit" /\ vote_origin = "" /\ pending_call = ""
    /\ \/ /\ \E a \in SubmitAnswers(FuelValues, MatchIds) :
                /\ vote' = submit_prediction(bot_fuel_amount, bot_max_fuel,
                                             team_preference, a.current_fuel,
                                             a.latest, a.resp, a.fid_ok, a.http)
                /\ latest_match_id' = a.latest
                /\ submit_match' = IF a.latest = "" THEN NoSnapshot ELSE a.resp
          /\ vote_origin' = "direct"
          /\ UNCHANGED pending_call
       \/ \* the remote service never answers a call made without timeout
          /\ \E c \in UnboundedCalls : pending_call' = c
          /\ UNCHANGED <<vote, vote_origin, snapVars>>
    /\ UNCHANGED <<configVars, now, threadVars, seqVars, slept, failure, found_match_id,
                   pureVars, unitVars, poolVars, fuelInfoVars, soloVars, waitVars>>

NextSubmit == SubmitPrediction

SpecSubmit == InitSubmit /\ [][NextSubmit]_vars

\* ================================================ get_user_fuel_info alone
\* a body with the balance under the first path
BodyWithFuel == [EmptyBody EXCEPT ![1] = [type |-> "int", v |-> 3]]

\* the answers of the remote service: every way the requests end, every
\* body the paths are tried on, and every course of the fuel claim
FuelResponses ==
    {[NoFuelResponse EXCEPT !.first = f, !.registered = g, !.second = s2,
                            !.json_ok = j, !.body = b] :
        f \in FuelGetOutcomes, g \in BOOLEAN, s2 \in FuelGetOutcomes,
        j \in BOOLEAN, b \in {EmptyBody, BodyWithFuel}}
    \cup {[NoFuelResponse EXCEPT !.data_field = d, !.body = b] :
        d \in {"dict", "non_dict", "absent"}, b \in FuelBodies(MaxFuelFields)}
    \cup {[NoFuelResponse EXCEPT !.can_claim = TRUE, !.claimed = c,
                                 !.refresh = o, !.body = b, !.refreshed = b2] :
        c \in BOOLEAN, o \in RefreshOutcomes, b \in {EmptyBody, BodyWithFuel},
        b2 \in FuelBodies(1)}

InitFuelInfo ==
    /\ mode = "fuel_info"
    /\ fuel_strategy = "max" /\ min_fuel_threshold = max_threshold
    /\ team_preference = "auto"
    /\ now = 0
    /\ ThreadIdle /\ SeqIdle /\ NoEvent /\ PureIdle
    /\ pending_call = ""
    /\ UnitIdle /\ PoolIdle /\ SnapIdle /\ SoloIdle /\ WaitIdle
    /\ fuel_response \in FuelResponses
    /\ fuel_info = NoFuelInfo

\* fuel = bot.get_user_fuel_info()
GetUserFuelInfo ==
    /\ mode = "fuel_info" /\ fuel_info = NoFuelInfo
    /\ fuel_info' = get_user_fuel_info(fuel_response)
    /\ UNCHANGED <<configVars, now, threadVars, seqVars, eventVars, pureVars,
                   pending_call, unitVars, poolVars, fuel_response, snapVars,
                   soloVars, waitVars>>

NextFuelInfo == GetUserFuelInfo

SpecFuelInfo == InitFuelInfo /\ [][NextFuelInfo]_vars


\* ================================== threaded_continuous_multi_account_vote
\* the generator of the random module, shared by every thread of the
\* process: its states, random.seed(n) and one step of it
RngModulus == 7
RngStates == 0..(RngModulus - 1)
seed_state(n) == n % RngModulus
next_rng(st) == (3 * st + 1) % RngModulus

\* random.randint(lo, hi) read off the state the generator has moved to
randint(lo, hi, st) == lo + (st % (hi - lo + 1))

\* readings of int(time.time() * 1000000) when a thread computes its seed
MaxClockMicros == 1
ClockMicros == 0..MaxClockMicros

\* line 1011; thread_id is the position in active_accounts, from 0
thread_seed_of(micros, thread_id, index) ==
    micros + thread_id * 1000 + index * 100

\* delays one thread draws for the matches it meets
MaxDraws == 2

\* the first n delays of a generator of its own seeded with seed
RECURSIVE DrawsFrom(_, _)
DrawsFrom(st, n) ==
    IF n = 0 THEN <<>>
    ELSE <<randint(min_delay, max_delay, next_rng(st))>>
         \o DrawsFrom(next_rng(st), n - 1)

PrivateDraws(seed, n) == DrawsFrom(seed_state(seed), n)

UnitEvent(d, f) ==
    /\ vote' = NoVote /\ vote_origin' = ""
    /\ slept' = d /\ failure' = f
    /\ found_match_id' = ""

UnitFrame ==
    UNCHANGED <<configVars, now, t_pc, last_match_id, is_first_vote, votes_attempted,
                vote_delay_seconds, bot_fuel_amount, current_match,
                delay_remaining, attempt, seqVars, pureVars, pending_call,
                poolVars, fuelInfoVars, snapVars, soloVars, waitVars>>

InitUnits ==
    /\ mode = "units"
    /\ fuel_strategy = "max" /\ min_fuel_threshold = max_threshold
    /\ team_preference = "auto"
    /\ now = 0
    /\ ThreadIdle /\ SeqIdle /\ NoEvent /\ PureIdle
    /\ pending_call = ""
    /\ unit_pc = [a \in Accounts |-> "unstarted"]
    /\ rng_state \in RngStates
    /\ thread_seed = [a \in Accounts |-> -1]
    /\ unit_delays = [a \in Accounts |-> <<>>]
    /\ PoolIdle /\ FuelInfoIdle /\ SnapIdle /\ SoloIdle /\ WaitIdle

\* lines 1269-1279: the main thread starts the threads in the order of
\* active_accounts, two seconds apart
sleep_thread_start == 2

StartThread ==
    /\ mode = "units" /\ exit_reason = ""
    /\ \E a \in Accounts :
          /\ unit_pc[a] = "unstarted"
          /\ \A b \in Accounts : b < a => unit_pc[b] # "unstarted"
          /\ unit_pc' = [unit_pc EXCEPT ![a] = "setup"]
    /\ UnitEvent(sleep_thread_start, "none")
    /\ UNCHANGED <<rng_state, thread_seed, unit_delays, exit_reason>>
    /\ UnitFrame

\* lines 1003-1038 of the thread of account a: random.seed(thread_seed)
\* seeds the generator of the module, then the bot is built
UnitSetup(a) ==
    /\ mode = "units" /\ exit_reason = ""
    /\ unit_pc[a] = "setup"
    /\ \E micros \in ClockMicros :
          LET seed == thread_seed_of(micros, a - 1, a)
          IN  /\ thread_seed' = [thread_seed EXCEPT ![a] = seed]
              /\ rng_state' = seed_state(seed)
    /\ unit_pc' = [unit_pc EXCEPT ![a] = "loop"]
    /\ UnitEvent(0, "none")
    /\ UNCHANGED <<unit_delays, exit_reason>>
    /\ UnitFrame

\* line 1105, in a cycle that meets a new match after the first one:
\* vote_delay_seconds = random.randint(min_delay, max_delay)
UnitDraw(a) ==
    /\ mode = "units" /\ exit_reason = ""
    /\ unit_pc[a] = "loop"
    /\ Len(unit_delays[a]) < MaxDraws
    /\ rng_state' = next_rng(rng_state)
    /\ unit_delays' =
          [unit_delays EXCEPT ![a] =
              Append(@, randint(min_delay, max_delay, next_rng(rng_state)))]
    /\ UnitEvent(0, "none")
    /\ UNCHANGED <<unit_pc, thread_seed, exit_reason>>
    /\ UnitFrame

\* an exception inside the try of one cycle (lines 1235-1237): printed,
\* the thread sleeps a minute and its loop goes on
UnitCycleError(a) ==
    /\ mode = "units" /\ exit_reason = ""
    /\ unit_pc[a] = "loop"
    /\ UnitEvent(sleep_cycle_error, "exception")
    /\ UNCHANGED <<unitVars, exit_reason>>
    /\ UnitFrame

\* an exception outside that try, in lines 1003-1038: "except Exception"
\* of the thread function (lines 1245-1249) calls os._exit(1), which ends
\* the process and with it every other thread
UnitFatalError(a) ==
    /\ mode = "units" /\ exit_reason = ""
    /\ unit_pc[a] = "setup"
    /\ unit_pc' = [b \in Accounts |->
                      IF b = a THEN "failed"
                      ELSE IF unit_pc[b] = "unstarted" THEN "unstarted"
                      ELSE "killed"]
    /\ exit_reason' = "exception"
    /\ UnitEvent(0, "exception")
    /\ UNCHANGED <<rng_state, thread_seed, unit_delays>>
    /\ UnitFrame

\* Ctrl+C in the main thread (lines 1289-1301): the process is ended
UnitsInterrupt ==
    /\ mode = "units" /\ exit_reason = ""
    /\ unit_pc' = [b \in Accounts |->
                      IF unit_pc[b] = "unstarted" THEN "unstarted"
                      ELSE "killed"]
    /\ exit_reason' = "KeyboardInterrupt"
    /\ UnitEvent(0, "none")
    /\ UNCHANGED <<rng_state, thread_seed, unit_delays>>
    /\ UnitFrame

NextUnits ==
    \/ StartThread
    \/ \E a \in Accounts : UnitSetup(a)
    \/ \E a \in Accounts : UnitDraw(a)
    \/ \E a \in Accounts : UnitCycleError(a)
    \/ \E a \in Accounts : UnitFatalError(a)
    \/ UnitsInterrupt

SpecUnits == InitUnits /\ [][NextUnits]_vars

\* ======================= threaded_multi_account_vote, one threaded pass
\* how the body of process_single_account_vote ends for one account:
\* run_auto_vote() returns True or False, or a statement in the try raises
VoteOutcomes == {"voted_ok", "voted_failed", "raised"}

\* result (lines 976-981) and error_result (lines 991-997), with the keys
\* the pass reads
result_record(a, outcome) ==
    [account_index |-> a, success |-> (outcome = "voted_ok"),
     error |-> (outcome = "raised")]

\* the records one invocation puts on results_queue: result at line
\* 983, or error_result in the handler at line 998
records_put_without_handler(a, outcome) ==
    IF outcome = "raised" THEN <<>> ELSE <<result_record(a, outcome)>>

records_put(a, outcome) == <<result_record(a, outcome)>>

PoolFrame ==
    UNCHANGED <<configVars, now, threadVars, seqVars, eventVars, pureVars,
                pending_call, unitVars, fuelInfoVars, snapVars, soloVars, waitVars>>

\* lines 1355-1362: a new queue, and one future per account of
\* account_info_list (the accounts with fuel)
InitPool ==
    /\ mode = "pool"
    /\ fuel_strategy = "max" /\ min_fuel_threshold = max_threshold
    /\ team_preference = "auto"
    /\ now = 0
    /\ ThreadIdle /\ SeqIdle /\ NoEvent /\ PureIdle
    /\ pending_call = ""
    /\ UnitIdle /\ FuelInfoIdle /\ SnapIdle /\ SoloIdle /\ WaitIdle
    /\ \E listed \in (SUBSET Accounts) \ {{}} :
          worker_pc = [a \in Accounts |->
                          IF a \in listed THEN "submitted" ELSE "idle"]
    /\ results_queue = <<>>
    /\ all_results = <<>>
    /\ pool_pc = "running"

\* lines 959-974 in the worker of account a
WorkerVote(a) ==
    /\ mode = "pool" /\ worker_pc[a] = "submitted"
    /\ \E outcome \in VoteOutcomes :
          worker_pc' = [worker_pc EXCEPT ![a] = outcome]
    /\ UNCHANGED <<results_queue, all_results, pool_pc>>
    /\ PoolFrame

\* lines 976-999: the record is put on the queue and the worker returns
WorkerPut(a) ==
    /\ mode = "pool" /\ worker_pc[a] \in VoteOutcomes
    /\ results_queue' = results_queue \o records_put(a, worker_pc[a])
    /\ worker_pc' = [worker_pc EXCEPT ![a] = "returned"]
    /\ UNCHANGED <<all_results, pool_pc>>
    /\ PoolFrame

\* lines 1365-1374: every future has completed and the with block of the
\* executor is left
PoolJoin ==
    /\ mode = "pool" /\ pool_pc = "running"
    /\ \A a \in Accounts : worker_pc[a] \in {"idle", "returned"}
    /\ pool_pc' = "collecting"
    /\ UNCHANGED <<worker_pc, results_queue, all_results>>
    /\ PoolFrame

\* one pass of "while not results_queue.empty()" (lines 1375-1376)
PoolCollect ==
    /\ mode = "pool" /\ pool_pc = "collecting"
    /\ IF results_queue # <<>>
       THEN /\ all_results' = Append(all_results, Head(results_queue))
            /\ results_queue' = Tail(results_queue)
            /\ UNCHANGED pool_pc
       ELSE /\ pool_pc' = "collected"
            /\ UNCHANGED <<results_queue, all_results>>
    /\ UNCHANGED worker_pc
    /\ PoolFrame

NextPool ==
    \/ \E a \in Accounts : WorkerVote(a)
    \/ \E a \in Accounts : WorkerPut(a)
    \/ PoolJoin
    \/ PoolCollect

SpecPool == InitPool /\ [][NextPool]_vars


\* ============================= the loops "while datetime.now() < target"
\* The loops that wait for voting_start or voting_end, run alone with
\* targets beyond sleep_slice (in Spec the clock ends at MaxTime).
MaxWaitTarget == 65
\* time.sleep returns at the time asked or up to MaxLate seconds later
MaxLate == 1

WaitLoops ==
    {"thread_start", "thread_end", "seek_start", "seq_start", "seq_end"}

\* the argument of time.sleep without the limit of 30 s
wait_sleep_time_uncapped(clock, target) == target - clock

\* remaining = (target - now).total_seconds(); time.sleep(min(30, remaining))
wait_sleep_time(clock, target) == Min2(sleep_slice, target - clock)

InitWait ==
    /\ mode = "wait"
    /\ fuel_strategy = "max" /\ min_fuel_threshold = max_threshold
    /\ team_preference = "auto"
    /\ now = 0
    /\ ThreadIdle /\ SeqIdle /\ NoEvent /\ PureIdle
    /\ pending_call = ""
    /\ UnitIdle /\ PoolIdle /\ FuelInfoIdle /\ SnapIdle /\ SoloIdle
    /\ wait_pc = "waiting"
    /\ wait_loop \in WaitLoops
    /\ wait_target \in 0..MaxWaitTarget

\* one evaluation of the loop condition and, when it holds, the body
WaitPass(loop) ==
    /\ mode = "wait" /\ wait_pc = "waiting" /\ wait_loop = loop
    /\ IF now < wait_target
       THEN /\ slept' = wait_sleep_time(now, wait_target)
            /\ \E late \in 0..MaxLate : now' = now + slept' + late
            /\ UNCHANGED wait_pc
       ELSE /\ wait_pc' = "done"
            /\ slept' = 0
            /\ UNCHANGED now
    /\ UNCHANGED <<configVars, threadVars, seqVars, vote, vote_origin, failure,
                   found_match_id, pureVars, pending_call, unitVars, poolVars,
                   fuelInfoVars, snapVars, soloVars, wait_loop, wait_target>>

\* run_account_continuous_thread, lines 1117-1125
ThreadWaitStartPass == WaitPass("thread_start")
\* run_account_continuous_thread, lines 1185-1191
ThreadCooldownPass == WaitPass("thread_end")
\* wait_for_next_match, lines 193-203
SeekWaitPass == WaitPass("seek_start")
\* continuous_multi_account_vote, lines 1571-1576
SeqWaitStartPass == WaitPass("seq_start")
\* continuous_multi_account_vote, lines 1711-1716
SeqWaitEndPass == WaitPass("seq_end")

NextWait ==
    \/ ThreadWaitStartPass
    \/ ThreadCooldownPass
    \/ SeekWaitPass
    \/ SeqWaitStartPass
    \/ SeqWaitEndPass

SpecWait == InitWait /\ [][NextWait]_vars


\* ================================================= farcaster_auto_vote.py
\* The continuous loop of main() and continuous_auto_vote() of the
\* single-account script.
MaxVoteCount == 3

\* main(): fuel_input = "1"
main_fuel_amount == 1
\* "Default fallback" of the loop's balance check
main_fuel_fallback == 3
sleep_main_no_fuel == 300
sleep_main_after_end == 120
sleep_main_window_over == 60
sleep_main_no_timing == 300
sleep_main_vote_failed == 120

\* the answers to the request of get_user_fuel_info: how the request
\* ends, whether the body is JSON, and data.data.fuelBalance in it
MainFuelResponses ==
    [status : {"200", "non200", "network_error"}, json_ok : BOOLEAN,
     field : {"int", "str", "absent"}, balance : 0..LowFuel]

\* get_user_fuel_info of farcaster_auto_vote.py: an int in every case,
\* 0 unless the request answers 200 with a positive data.data.fuelBalance
\* (an exception, also the TypeError of comparing a string with 0, is
\* caught and gives 0)
main_get_user_fuel_info(r) ==
    IF r.status = "200" /\ r.json_ok /\ r.field = "int" /\ r.balance > 0
    THEN [type |-> "int", v |-> r.balance]
    ELSE [type |-> "int", v |-> 0]

\* current_fuel_check of the loop: the fuelBalance of a dict (v holds
\* fuel_info['data']['data']['fuelBalance']), the fallback for any other
\* value
main_current_fuel_check(info) ==
    IF info.v # 0 /\ info.type = "dict" THEN info.v ELSE main_fuel_fallback

MainMechOptions == {"none", "ids", "details", "details_and_ids"}

\* what the remote service answers during one run_auto_vote():
\*   steps   the first of the calls before submit_prediction that fails
\*   latest  get_latest_match_id's result ("" for None)
\*   resp    the match details submit_prediction fetches
\*   http    the outcome of the PUT
MainGoodAnswer(id, mechs, http) ==
    [steps |-> "ok", latest |-> id,
     resp |-> [shape |-> "match", _id |-> id, mechs |-> mechs], http |-> http]

MainVoteAnswers ==
    {MainGoodAnswer(id, mechs, http) :
        id \in MatchIds, mechs \in MainMechOptions, http \in HttpOutcomes}
    \cup {[MainGoodAnswer("m1", "ids", "200") EXCEPT !.steps = s] :
            s \in {"event_failed", "frame_failed", "user_failed",
                   "match_failed"}}
    \cup {[MainGoodAnswer("m1", "ids", "200") EXCEPT !.latest = ""],
          [MainGoodAnswer("m1", "ids", "200") EXCEPT !.latest = "m2"],
          [MainGoodAnswer("m1", "ids", "200") EXCEPT !.resp._id = ""]}
    \cup {[MainGoodAnswer("m1", "ids", "200")
             EXCEPT !.resp = [shape |-> s, _id |-> "", mechs |-> "none"]] :
          s \in FailShapes}

\* submit_prediction of farcaster_auto_vote.py called without arguments:
\* it reads no balance; fuel_amount 0 stands for None
main_submit_prediction(fuel_amount, max_fuel, pref, latest, resp, http) ==
    LET selected ==
            IF resp.mechs \in {"details", "details_and_ids"}
            THEN select_mech_by_preference_auto_vote(pref, details_pair)
            ELSE NoMech
        mech_id ==
            IF selected # NoMech THEN selected.mechId
            ELSE IF resp.mechs \in {"ids", "details_and_ids"}
                 THEN first_mech_id
            ELSE 0
    IN  IF \/ latest = ""
           \/ resp.shape # "match"
           \/ resp._id = ""
           \/ mech_id = 0
           \/ fuel_amount = 0
           \/ fuel_amount > max_fuel
        THEN NoVote
        ELSE [sent |-> TRUE, success |-> (http = "200"),
              fuelPoints |-> fuel_amount, current_fuel |-> 0,
              matchId |-> resp._id, mechId |-> mech_id]

\* run_auto_vote of farcaster_auto_vote.py
main_run_auto_vote(fuel_amount, max_fuel, pref, a) ==
    IF a.steps # "ok" THEN NoVote
    ELSE main_submit_prediction(fuel_amount, max_fuel, pref, a.latest,
                                a.resp, a.http)

SoloLoopPcs == {"check", "vote", "vote_ok", "vote_failed", "cycle"}

InitSolo ==
    /\ mode \in {"main_loop", "continuous_auto_vote"}
    /\ fuel_strategy = "max" /\ min_fuel_threshold = max_threshold
    /\ team_preference = IF mode = "main_loop" THEN "None" ELSE "auto"
    /\ now = 0
    /\ t_pc = "idle"
    /\ last_match_id = "None"
    /\ is_first_vote = TRUE
    /\ votes_attempted = FALSE
    /\ vote_delay_seconds = 0
    /\ bot_fuel_amount = IF mode = "main_loop" THEN main_fuel_amount ELSE 0
    /\ current_match = NoMatch
    /\ delay_remaining = 0
    /\ attempt = 0
    /\ exit_reason = ""
    /\ SeqIdle /\ NoEvent
    /\ match_data = NoTimingMatch
    /\ timing_result = NoResult
    /\ mech_details = <<>>
    /\ selected_mech = NoMech
    /\ selected_by = ""
    /\ IF mode = "main_loop"
       THEN bot_max_fuel \in main_fuel_amount..LowFuel
       ELSE bot_max_fuel = 0
    /\ pending_call = ""
    /\ UnitIdle /\ PoolIdle /\ FuelInfoIdle /\ SnapIdle /\ WaitIdle
    /\ solo_pc = IF mode = "main_loop" THEN "check" ELSE "cycle"
    /\ vote_count = 0
    /\ main_fuel_response = NoMainFuelResponse
    /\ main_fuel_info = NoMainFuelInfo
    /\ current_fuel_check = 0

SoloFrame ==
    UNCHANGED <<configVars, t_pc, last_match_id, is_first_vote, votes_attempted,
                vote_delay_seconds, bot_fuel_amount, current_match,
                delay_remaining, attempt, seqVars, match_data, timing_result,
                mech_details, selected_mech, selected_by, unitVars, poolVars,
                fuelInfoVars, snapVars, waitVars>>

\* main(), lines 1491-1521: the balance check at the top of the while
\* loop, up to the assignment of bot.max_fuel
MainCheckFuel ==
    /\ mode = "main_loop" /\ solo_pc = "check" /\ vote_count < MaxVoteCount
    /\ vote_count' = vote_count + 1
    /\ \E r \in MainFuelResponses :
          LET info == main_get_user_fuel_info(r)
              check == main_current_fuel_check(info)
          IN  /\ main_fuel_response' = r
              /\ main_fuel_info' = info
              /\ current_fuel_check' = check
              /\ IF check < main_fuel_amount
                 THEN /\ Restart(sleep_main_no_fuel, "insufficient_fuel")
                      /\ UNCHANGED <<solo_pc, bot_max_fuel>>
                 ELSE /\ bot_max_fuel' = check
                      /\ solo_pc' = "vote"
                      /\ Restart(0, "none")
    /\ UNCHANGED <<exit_reason, pending_call>>
    /\ SoloFrame

\* the requests of run_auto_vote, none of which is given a timeout
MainCalls ==
    {"mini_app_event", "frame_info", "user_data", "match_details",
     "latest_match", "prediction"}

\* success = bot.run_auto_vote()  (line 1525)
MainVote ==
    /\ mode = "main_loop" /\ solo_pc = "vote"
    /\ \/ /\ \E a \in MainVoteAnswers :
              LET res == main_run_auto_vote(bot_fuel_amount, bot_max_fuel,
                                            team_preference, a)
              IN  /\ vote' = res
                  /\ vote_origin' = IF res.sent THEN "main" ELSE ""
                  /\ solo_pc' = IF res.success THEN "vote_ok" ELSE "vote_failed"
          /\ UNCHANGED pending_call
       \/ \* the remote service never answers one of the calls
          /\ \E c \in MainCalls : pending_call' = c
          /\ solo_pc' = "blocked"
          /\ vote' = NoVote /\ vote_origin' = ""
    /\ slept' = 0 /\ failure' = "none" /\ found_match_id' = ""
    /\ UNCHANGED <<now, exit_reason, bot_max_fuel, vote_count,
                   main_fuel_response, main_fuel_info, current_fuel_check>>
    /\ SoloFrame

\* the matches the loop fetches after a vote: it reads the end of the
\* voting window only
MainTimingMatches == {m \in SeqMatches : m.votingStartTime = MissingIso}

\* lines 1527-1562: after a successful vote the match is fetched and the
\* loop sleeps until 2 minutes after voting_end (1 minute when the window
\* is over, 5 minutes without timing or on an exception; not at all when
\* no match comes back); after a failed vote it sleeps 2 minutes
MainAfterVote ==
    /\ mode = "main_loop" /\ solo_pc \in {"vote_ok", "vote_failed"}
    /\ IF solo_pc = "vote_failed"
       THEN Restart(sleep_main_vote_failed, "vote_failed")
       ELSE \/ \E shape \in FailShapes :
                  IF shape = "no_key"
                  THEN Restart(sleep_main_no_timing, "exception")
                  ELSE Restart(0, "no_match")
            \/ \E m \in MainTimingMatches :
                  LET voting_end == parse_iso_time(voting_end_str(m))
                  IN  IF ~Truthy(voting_end_str(m))
                      THEN Restart(sleep_main_no_timing, "no_end_time")
                      ELSE IF voting_end.ok /\ now < voting_end.utc
                      THEN Restart((voting_end.utc - now)
                                   + sleep_main_after_end, "none")
                      ELSE Restart(sleep_main_window_over, "none")
    /\ solo_pc' = "check"
    /\ UNCHANGED <<exit_reason, bot_max_fuel, pending_call, vote_count,
                   main_fuel_response, main_fuel_info, current_fuel_check>>
    /\ SoloFrame

\* Ctrl+C (lines 1564-1567): the loop ends
MainInterrupt ==
    /\ mode = "main_loop" /\ solo_pc \in SoloLoopPcs \cup {"blocked"}
    /\ solo_pc' = "stopped"
    /\ exit_reason' = "KeyboardInterrupt"
    /\ pending_call' = ""
    /\ Restart(0, "none")
    /\ UNCHANGED <<bot_max_fuel, vote_count, main_fuel_response,
                   main_fuel_info, current_fuel_check>>
    /\ SoloFrame

\* continuous_auto_vote(), lines 1620-1632 and the handlers of lines
\* 1759-1765: the token is loaded; without one the loop breaks; with
\* one, detect_user_fuel is called, a name that no module defines, and
\* the NameError is caught by "except Exception" around the while loop,
\* which ends the function
TokenOutcomes == {"loaded", "missing"}

ContinuousCycle ==
    /\ mode = "continuous_auto_vote" /\ solo_pc = "cycle"
    /\ vote_count' = vote_count + 1
    /\ \E token \in TokenOutcomes :
          /\ exit_reason' = IF token = "missing" THEN "no_token"
                            ELSE "exception"
          /\ Restart(0, IF token = "missing" THEN "none" ELSE "NameError")
    /\ solo_pc' = "stopped"
    /\ UNCHANGED <<bot_max_fuel, pending_call, main_fuel_response,
                   main_fuel_info, current_fuel_check>>
    /\ SoloFrame

\* Ctrl+C while the token is read (lines 1759-1762)
ContinuousInterrupt ==
    /\ mode = "continuous_auto_vote" /\ solo_pc = "cycle"
    /\ vote_count' = vote_count + 1
    /\ solo_pc' = "stopped"
    /\ exit_reason' = "KeyboardInterrupt"
    /\ Restart(0, "none")
    /\ UNCHANGED <<bot_max_fuel, pending_call, main_fuel_response,
                   main_fuel_info, current_fuel_check>>
    /\ SoloFrame

NextSolo ==
    \/ MainCheckFuel
    \/ MainVote
    \/ MainAfterVote
    \/ MainInterrupt
    \/ ContinuousCycle
    \/ ContinuousInterrupt

SpecSolo == InitSolo /\ [][NextSolo]_vars

\* ================================================================ claims
\* C1: the fuelPoints of a vote that submit_prediction sends is never
\* greater than the balance submit_prediction read at the start of the
\* same call, whatever fuel_amount and max_fuel the strategy, threshold
\* and balances make the caller build the bot with.
C1_FuelWithinBalance ==
    vote.sent => vote.fuelPoints <= vote.current_fuel

\* a vote the balance limits: the bot's fuel_amount and max_fuel are both
\* above the balance read in the call, and the vote carries the balance
C1_Witness ==
    /\ mode = "submit"
    /\ vote.sent
    /\ bot_fuel_amount > vote.current_fuel
    /\ bot_max_fuel > vote.current_fuel
    /\ vote.fuelPoints = vote.current_fuel
    /\ vote.fuelPoints > 0

\* C2: every vote request submit_prediction sends carries fuelPoints >= 1;
\* in particular none is sent when the balance read in the call is 0.
C2_VoteCarriesFuel ==
    vote.sent => vote.fuelPoints >= 1 /\ vote.current_fuel # 0

\* C3: under the conservative strategy with threshold T, in both loops,
\* every vote submitted carries exactly T fuel points and none is submitted
\* when the balance (read by the loop or by the call) is below T.
C3_ConservativeExact ==
    (fuel_strategy = "conservative" /\ vote.sent) =>
        /\ vote.fuelPoints = min_fuel_threshold
        /\ vote.current_fuel >= min_fuel_threshold
        /\ vote_origin = "sequential" => seq_current_fuel >= min_fuel_threshold

\* C4: under the max strategy the vote the per-account thread submits
\* carries exactly the balance B, for every B >= 1 (B is the balance the
\* cycle read, kept in bot.fuel_amount, and the call read it again
\* unchanged).
C4_MaxSpendsBalance ==
    (/\ fuel_strategy = "max"
     /\ vote.sent
     /\ vote_origin = "thread"
     /\ vote.current_fuel = bot_fuel_amount) =>
        vote.fuelPoints = bot_fuel_amount

\* C5: under the custom strategy with amount A every vote submitted, by
\* the thread loop or the sequential loop, carries min(A, balance) (in the
\* sequential loop the balance the loop read is the one the call reads).
C5_CustomSpendsMin ==
    (/\ fuel_strategy = "custom"
     /\ vote.sent
     /\ vote_origin = "sequential" => seq_current_fuel = vote.current_fuel) =>
        vote.fuelPoints = Min2(min_fuel_threshold, vote.current_fuel)

\* the function has been applied to match_data at clock reading now
TimingApplied == mode = "timing" /\ timing_result # NoResult

\* both timestamps present and parseable, voting_start <= voting_end
TimingWellFormed ==
    LET s == match_data.votingStartTime
        e == voting_end_str(match_data)
    IN  /\ Truthy(s) /\ parse_iso_time(s).ok
        /\ Truthy(e) /\ parse_iso_time(e).ok
        /\ parse_iso_time(s).utc <= parse_iso_time(e).utc

\* C6: for a match with both timestamps present and parseable and
\* voting_start <= voting_end, show_match_timing_info returns
\* ('waiting', voting_start - now) iff now < voting_start,
\* ('open', voting_end - now) iff voting_start <= now <= voting_end,
\* ('closed', 0) iff now > voting_end, and never a negative duration.
C6_ClassifyWellFormed ==
    (TimingApplied /\ TimingWellFormed) =>
        LET voting_start == parse_iso_time(match_data.votingStartTime).utc
            voting_end == parse_iso_time(voting_end_str(match_data)).utc
        IN  /\ timing_result[1] \in {"waiting", "open", "closed"}
            /\ (timing_result = <<"waiting", voting_start - now>>)
                   <=> (now < voting_start)
            /\ (timing_result = <<"open", voting_end - now>>)
                   <=> (voting_start <= now /\ now <= voting_end)
            /\ (timing_result = <<"closed", 0>>) <=> (now > voting_end)
            /\ timing_result[2] >= 0

\* an open window read at its last instant, its end written with a UTC
\* offset
C6_Witness ==
    /\ TimingApplied /\ TimingWellFormed
    /\ voting_end_str(match_data).kind = "offset"
    /\ now = parse_iso_time(voting_end_str(match_data)).utc
    /\ parse_iso_time(match_data.votingStartTime).utc < now
    /\ timing_result = <<"open", 0>>

\* C7: when votingStartTime or the voting-end timestamp is missing or
\* cannot be parsed, show_match_timing_info returns 'unknown' (it never
\* raises: every outcome of the function is a returned pair).
C7_MalformedIsUnknown ==
    (/\ TimingApplied
     /\ LET s == match_data.votingStartTime
            e == voting_end_str(match_data)
        IN  ~(/\ Truthy(s) /\ parse_iso_time(s).ok
              /\ Truthy(e) /\ parse_iso_time(e).ok)) =>
        timing_result[1] = "unknown"

NoPreferenceHit ==
    \A i \in 1..Len(mech_details) :
        ~PreferenceMatches(team_preference,
                           IF selected_by = "clean"
                           THEN team_indicator(mech_details, i)
                           ELSE team_indicator_auto_vote(mech_details, i))

\* C9: in both source files, when no preference is set or no mech matches
\* it and the list has two or more mechs, the mech returned has the
\* maximum (winningProbability, voteCount, fuelPoints) among the list.
C9_FallbackIsBest ==
    (/\ mode = "mech" /\ selected_by # ""
     /\ Len(mech_details) >= 2
     /\ NoPreferenceHit) =>
        /\ \E i \in 1..Len(mech_details) : selected_mech = mech_details[i]
        /\ \A j \in 1..Len(mech_details) :
               ~KeyLess(selected_mech, mech_details[j])

\* C10: a per-account thread never ends because of a remote failure
\* inside a voting cycle: the thread ends only on KeyboardInterrupt, and
\* the step that meets a failure always sleeps and leaves the thread in
\* its loop.
C10_ThreadSurvivesFailures ==
    mode = "threaded" =>
        /\ t_pc = "exited" => exit_reason = "KeyboardInterrupt"
        /\ failure # "none" => slept > 0 /\ t_pc \in {"cycle", "seek"}

\* an exception raised inside the cycle: the thread has slept a minute
\* and is at the top of its loop
C10_Witness ==
    /\ mode = "threaded"
    /\ failure = "exception"
    /\ slept = sleep_cycle_error
    /\ t_pc = "cycle"
    /\ exit_reason = ""

\* C11: in continuous_multi_account_vote a match answer without a match,
\* with fields missing, or with voting timestamps that are missing or do
\* not parse, is followed by a sleep and another poll; the function does
\* not end.
MatchFailures ==
    {"exception", "no_match", "no_timing", "status_unknown", "status_error"}

C11_MalformedMatchIsTransient ==
    (mode = "sequential" /\ failure \in MatchFailures) =>
        slept > 0 /\ s_pc # "done"

\* C12: once continuous_multi_account_vote runs its loop it ends only when
\* it is cancelled; accounts running out of fuel do not end it.  (The end
\* through the exception handler is the subject of C11.)
C12_RunsUntilCancelled ==
    (mode = "sequential" /\ s_pc = "done"
        /\ exit_reason \notin {"", "exception"}) =>
        exit_reason = "KeyboardInterrupt"

\* C13: a KeyboardInterrupt delivered while the orchestrator runs, in
\* either mode and also while an answer is parsed, ends the run: in the
\* state it leads to every loop has stopped and no vote has been sent.
InterruptDelivered ==
    failure = "interrupt_swallowed" \/ exit_reason = "KeyboardInterrupt"

C13_InterruptStopsRun ==
    (mode \in {"threaded", "sequential"} /\ InterruptDelivered) =>
        /\ t_pc = "exited" \/ s_pc = "done"
        /\ ~vote.sent

\* C14: the delays a thread of the concurrent mode has drawn are the
\* ones a generator of its own, seeded with the thread's seed, gives;
\* what the other threads seed or draw does not change them.
C14_DelaysFromOwnSeed ==
    mode = "units" =>
        \A a \in Accounts :
            thread_seed[a] >= 0 =>
                unit_delays[a] =
                    PrivateDraws(thread_seed[a], Len(unit_delays[a]))

\* C15: in concurrent mode an error raised in the thread of one account
\* leaves the threads of the other accounts running: a thread is only
\* ever stopped from outside by the cancellation of the run.
C15_ErrorStopsOwnThreadOnly ==
    mode = "units" =>
        \A a \in Accounts :
            unit_pc[a] = "killed" => exit_reason = "KeyboardInterrupt"

\* C16: every outbound call of a vote attempt has a timeout, so no vote
\* attempt stays in a call that the remote service does not answer.
C16_VoteAttemptTerminates == pending_call = ""

\* C19: a vote that run_account_continuous_thread submits for a match
\* with a jitter delay, and every vote of a pass of
\* continuous_multi_account_vote, is submitted no later than the voting
\* end of the match in hand.
C19_VoteInsideWindow ==
    (vote.sent /\ (\/ vote_origin = "thread" /\ vote_delay_seconds > 0
                   \/ vote_origin = "sequential")) =>
        LET voting_end == parse_iso_time(voting_end_str(current_match))
        IN  voting_end.ok => now <= voting_end.utc

\* C20: a vote of run_account_continuous_thread carries the id of the
\* match the cycle classified as open.
C20_VoteForClassifiedMatch ==
    (vote.sent /\ vote_origin = "thread") =>
        vote.matchId = current_match._id

\* C17: every invocation of process_single_account_vote has put exactly
\* one record on the results queue when it returns, and none before,
\* whether the vote succeeded, failed or raised; when a threaded pass has
\* collected the results there is exactly one record for each account
\* of the pass and no other.
RecordsOf(a) ==
    LET put == results_queue \o all_results
    IN  Cardinality({i \in 1..Len(put) : put[i].account_index = a})

CollectedOf(a) ==
    Cardinality({i \in 1..Len(all_results) :
                    all_results[i].account_index = a})

FuelInfoApplied == mode = "fuel_info" /\ fuel_info # NoFuelInfo

FuelStatus ==
    IF fuel_response.first = "404" /\ fuel_response.registered
    THEN fuel_response.second ELSE fuel_response.first

FuelBodyParsed ==
    IF /\ fuel_response.can_claim /\ fuel_response.claimed
       /\ fuel_response.refresh = "200"
    THEN fuel_response.refreshed ELSE fuel_response.body

NoFuelField ==
    \A i \in 1..Len(fuel_paths) :
        LET x == FieldAt(FuelBodyParsed, fuel_response.data_field, i)
        IN  ~(IsNumber(x) /\ NonNegative(x))

C18_FuelInfoTotal ==
    FuelInfoApplied =>
        /\ ~fuel_info.raised
        /\ fuel_info.value \in Nat
        /\ (FuelStatus # "200" \/ NoFuelField) => fuel_info.value = 0

C18_Witness ==
    /\ FuelInfoApplied
    /\ fuel_response.body[1] = [type |-> "int", v |-> -1]
    /\ fuel_response.body[3] = [type |-> "float", v |-> 25]
    /\ fuel_response.data_field = "dict"
    /\ fuel_info.value = 2

\* C21: run_account_continuous_thread calls wait_for_next_match only when
\* the voting window of the match in hand is over: in the cycle that
\* classified a match as closed (the clock is then past its voting end),
\* or, after a successful vote, once the clock has reached voting_end.
ClosedAt(m, n) ==
    /\ show_match_timing_info(m, n)[1] = "closed"
    /\ n > parse_iso_time(voting_end_str(m)).utc

C21_SeekAfterWindowOver ==
    [][(mode = "threaded" /\ t_pc # "seek" /\ t_pc' = "seek") =>
          \/ /\ t_pc = "cooldown"
             /\ parse_iso_time(voting_end_str(current_match)).ok
             /\ now >= parse_iso_time(voting_end_str(current_match)).utc
          \/ /\ t_pc = "cycle"
             /\ \E m \in LoopMatches :
                    last_match_id' = match_id_of(m) /\ ClosedAt(m, now)]_vars

\* the thread has voted, waited for the end of the window and is about
\* to make the first poll of wait_for_next_match
C21_Witness ==
    /\ mode = "threaded"
    /\ t_pc = "seek"
    /\ attempt = 0
    /\ votes_attempted
    /\ last_match_id \in MatchIds

\* C22: when wait_for_next_match returns a match to
\* run_account_continuous_thread, the _id of that match is not the _id of
\* the match the thread processed last (last_match_id at the call).
C22_NextMatchIsNew ==
    [][(mode = "threaded" /\ found_match_id' # "") =>
          found_match_id' # last_match_id]_vars

\* C23: wait_for_next_match polls the remote service at most
\* max_wait_minutes times; it returns failure only when that many polls
\* found no pending or open window, and its caller (the thread or the
\* sequential loop) then sleeps at least 300 s and is back at the top of
\* its loop, not stopped.
SeekBoundedThenRetry ==
    mode \in {"threaded", "sequential"} =>
        /\ attempt' <= max_wait_minutes
        /\ (failure' = "no_next_match") =>
              /\ attempt = max_wait_minutes
              /\ slept' >= sleep_no_next_match
              /\ (mode = "threaded") => (t_pc = "seek" /\ t_pc' = "cycle")
              /\ (mode = "sequential") => (s_pc = "seek" /\ s_pc' = "cycle")

C23_SeekBoundedThenRetry == [][SeekBoundedThenRetry]_vars

\* the sequential loop after a search that found nothing
C23_Witness ==
    /\ mode = "sequential"
    /\ failure = "no_next_match"
    /\ slept = sleep_no_next_match + sleep_cycle_end
    /\ s_pc = "cycle"

\* C24: when run_account_continuous_thread reads a balance below the
\* required minimum at the start of a cycle, the step sends no vote, the
\* thread has not ended, and the thread is then in the wait for the end
\* of the voting window of the current match (the cooldown).
C24_LowFuelCoolsDown ==
    (mode = "threaded" /\ failure = "insufficient_fuel") =>
        /\ ~vote.sent
        /\ t_pc # "exited"
        /\ t_pc = "cooldown"

\* C25: the first vote attempt is made with jitter delay 0: the first
\* call of submit_prediction by run_account_continuous_thread is made
\* with vote_delay_seconds = 0, and the voting pass that clears
\* is_first_vote_cycle in continuous_multi_account_vote gives every
\* account the delay 0.
FirstVoteWithoutDelay ==
    /\ (mode = "threaded" /\ ~votes_attempted /\ votes_attempted') =>
           vote_delay_seconds = 0
    /\ (mode = "sequential" /\ is_first_vote_cycle /\ ~is_first_vote_cycle') =>
           \A a \in Accounts : account_delays'[a] = 0

C25_FirstVoteWithoutDelay == [][FirstVoteWithoutDelay]_vars

\* C26: every call of submit_prediction that run_account_continuous_thread
\* makes after its first one, for the same match or for a new one, is
\* made with a jitter delay drawn from min_delay..max_delay.
C26_LaterVotesAreDelayed ==
    (mode = "threaded" /\ votes_attempted /\ t_pc = "submit") =>
        vote_delay_seconds \in min_delay..max_delay

\* C27: in run_account_continuous_thread, wait_for_next_match and
\* continuous_multi_account_vote every step that meets a failure or an
\* unusable match and leaves the loop running has slept: a step marked
\* with a failure, a step that finds the window closed (the thread going
\* to wait_for_next_match, the sequential loop and wait_for_next_match
\* polling again), and every step back to a poll.
RetryFailures ==
    {"insufficient_fuel", "no_match", "no_timing", "status_unknown",
     "status_error", "vote_failed", "all_votes_failed", "no_next_match",
     "no_end_time", "exception"}

\* the step is only the clock moving on
TimePasses ==
    slept' = 0 /\ now' = now + 1 /\ UNCHANGED <<threadVars, seqVars>>

FailureStepSleeps ==
    (failure' \in RetryFailures /\ t_pc' # "exited" /\ s_pc' # "done") =>
        slept' > 0

PollAgainSleeps ==
    /\ (s_pc = "cycle" /\ s_pc' = "cycle" /\ ~TimePasses) => slept' > 0
    /\ (attempt' = attempt + 1) => slept' > 0

ClosedWindowSleeps ==
    (t_pc = "cycle" /\ t_pc' = "seek") => slept' > 0

NoRetryWithoutSleep ==
    mode \in {"threaded", "sequential"} =>
        FailureStepSleeps /\ PollAgainSleeps /\ ClosedWindowSleeps

C27_NoRetryWithoutSleep == [][NoRetryWithoutSleep]_vars

\* C28: continuous_multi_account_vote removes an account from
\* active_accounts only when it has read the balance 0 for that account
\* in the cycle before as well; the first balance 0 in a row removes no
\* account.
Active(list, a) == \E i \in 1..Len(list) : list[i] = a

Removed(a) == Active(active_accounts, a) /\ ~Active(active_accounts', a)

RemovedAfterRepeatedZero ==
    mode = "sequential" =>
        \A a \in Accounts : Removed(a) => zero_readings[a] >= 1

C28_RemovedAfterRepeatedZero == [][RemovedAfterRepeatedZero]_vars

\* C29: a request for the balance that fails (timeout, status other
\* than 200, body that is not JSON), which get_user_fuel_info reports as
\* balance 0, removes no account from active_accounts of
\* continuous_multi_account_vote.
FailedReadKeepsAccount ==
    (mode = "sequential" /\ failure' = "fuel_read_failed") =>
        \A a \in Accounts : ~Removed(a)

C29_FailedReadKeepsAccount == [][FailedReadKeepsAccount]_vars

\* C30: when a pass of continuous_multi_account_vote over the active
\* accounts is over, whatever its votes did, the loop either starts the
\* wait for voting_end of the match of the pass or the clock has
\* reached that voting_end already; it does not poll or vote again
\* while the window is open.
PassOver ==
    /\ s_pc = "account" /\ k > Len(pass)
    /\ s_pc' \notin {"account", "done"}
    /\ active_accounts # <<>>

WaitsForWindowEnd ==
    (mode = "sequential" /\ PassOver) =>
        \/ s_pc' = "wait_end"
        \/ now >= parse_iso_time(voting_end_str(current_match)).utc

C30_WaitsForWindowEnd == [][WaitsForWindowEnd]_vars

\* C35: in continuous_multi_account_vote the list of active accounts only
\* shrinks: before the first pass it holds exactly the accounts the scan
\* found fuel for, no step adds an entry to it, and every vote the loop
\* sends is sent for an account that is in the list at that moment.
ActiveAreScanned ==
    is_first_vote_cycle =>
        \A a \in Accounts : Active(active_accounts, a) <=> acc_fuel[a] > 0

ActiveOnlyShrinks ==
    mode = "sequential" =>
        /\ ActiveAreScanned
        /\ Len(active_accounts') <= Len(active_accounts)
        /\ \A a \in Accounts :
              Active(active_accounts', a) => Active(active_accounts, a)
        /\ (vote'.sent /\ vote_origin' = "sequential") =>
              /\ k \in 1..Len(pass)
              /\ Active(active_accounts, pass[k])
              /\ Active(active_accounts', pass[k])

C35_ActiveOnlyShrinks == [][ActiveOnlyShrinks]_vars

C35_Witness ==
    /\ mode = "sequential"
    /\ vote.sent /\ vote_origin = "sequential"
    /\ \E a \in Accounts :
          zero_readings[a] > 0 /\ ~Active(active_accounts, a)

\* C36: in continuous_multi_account_vote the balance the loop records
\* for an active account, acc['fuel'], is never negative, also right
\* after fuel_to_use is subtracted from it for a successful vote.
C36_RecordedFuelNotNegative ==
    mode = "sequential" =>
        \A a \in Accounts : Active(active_accounts, a) => acc_fuel[a] >= 0

\* C37: when submit_prediction chooses the mech itself, the matchId and
\* the mechId of the payload it sends come from the match details it
\* fetched itself: matchId is the _id of matchData[0], and mechId is a
\* mechId of that entry's mechDetails or, without mechDetails, the first
\* of its mechIds; the id the latest-match lookup returned is not sent
\* when it differs.
C37_PayloadFromOneSnapshot ==
    (mode = "submit" /\ vote.sent) =>
        /\ submit_match.shape = "match"
        /\ vote.matchId = submit_match._id
        /\ \/ /\ submit_match.mechs = "details"
              /\ \E i \in 1..Len(details_pair) :
                    details_pair[i].mechId = vote.mechId
           \/ /\ submit_match.mechs = "ids"
              /\ vote.mechId = first_mech_id

C37_Witness ==
    /\ mode = "submit" /\ vote.sent
    /\ latest_match_id \in MatchIds
    /\ latest_match_id # submit_match._id
    /\ vote.matchId = submit_match._id

\* C31: in the loops of run_account_continuous_thread,
\* wait_for_next_match and continuous_multi_account_vote that wait for
\* voting_start or voting_end, no call of time.sleep is asked for more
\* than 30 seconds, and the loop is left only when the clock has
\* reached the target.
WaitInSlices ==
    mode = "wait" =>
        /\ slept' <= 30
        /\ (wait_pc = "waiting" /\ wait_pc' = "done") => now >= wait_target

C31_WaitInSlices == [][WaitInSlices]_vars

C31_Witness ==
    /\ mode = "wait" /\ wait_pc = "done"
    /\ wait_target > 2 * sleep_slice
    /\ now >= wait_target

\* C34: once a vote of run_account_continuous_thread has succeeded for a
\* match that has a voting-end timestamp, the thread sends no vote and
\* does not reach submit_prediction again before its clock has reached
\* that voting_end: it stays in the wait for the end of the window,
\* holding the same match, or exits.
HoldsVotedMatch ==
    \/ t_pc = "cooldown"
    \/ t_pc = "vote_ok" /\ Truthy(voting_end_str(current_match))

OneVotePerWindow ==
    (mode = "threaded" /\ HoldsVotedMatch) =>
        /\ ~vote'.sent
        /\ t_pc' # "submit"
        /\ \/ t_pc' = "exited"
           \/ t_pc' \in {t_pc, "cooldown"} /\ current_match' = current_match
           \/ now >= parse_iso_time(voting_end_str(current_match)).utc

VotingWithDelay ==
    /\ mode = "threaded" /\ vote_delay_seconds > 0
    /\ t_pc = "submit" \/ (vote.sent /\ vote_origin = "thread")

C38_VoteAfterDelay ==
    VotingWithDelay =>
        \/ now = MaxTime
        \/ now >= parse_iso_time(current_match.votingStartTime).utc
                  + vote_delay_seconds

C38_Witness ==
    /\ VotingWithDelay /\ vote.sent
    /\ now < MaxTime
    /\ now = parse_iso_time(current_match.votingStartTime).utc
             + vote_delay_seconds

\* C32: continuous_auto_vote of farcaster_auto_vote.py stops only on the
\* user's interrupt or when no token can be loaded; with a token loaded
\* it goes on from cycle to cycle.
C32_StopsOnlyOnInterruptOrNoToken ==
    (mode = "continuous_auto_vote" /\ solo_pc = "stopped") =>
        exit_reason \in {"KeyboardInterrupt", "no_token"}

\* C33: in the continuous loop of main of farcaster_auto_vote.py, when
\* the remote service has answered the balance request of an iteration
\* with a balance, the iteration goes on to the vote, and sends one,
\* only if that balance is at least the configured fuel amount.
BalanceReported ==
    /\ main_fuel_response.status = "200" /\ main_fuel_response.json_ok
    /\ main_fuel_response.field = "int"

C33_VoteOnlyWithFuel ==
    (/\ mode = "main_loop" /\ BalanceReported
     /\ solo_pc = "vote" \/ (vote.sent /\ vote_origin = "main")) =>
        main_fuel_response.balance >= bot_fuel_amount

====
